---------------------------- MODULE Spec2Model ----------------------------
(***************************************************************************)
(* WorthWise: the financial calculation engine (src/src/core/calculator.py)*)
(* and the constants it reads (src/src/data/constants.py).                 *)
(*                                                                         *)
(* Numbers.  The engine works on Python floats.  The model computes with   *)
(* exact rationals <<n, d>> (d > 0, lowest terms); float('inf') is the     *)
(* pair <<1, 0>>.  Rounding of the binary representation is not modelled.  *)
(* A Python exception is the value of the variable exc.                    *)
(***************************************************************************)
EXTENDS Integers, Sequences, FiniteSets, Bags, TLC

\* op:     the operation the caller has invoked ("none": no call made)
\* args:   the arguments of that call, a record named as the parameters
\* result: the value the call returned
\* exc:    the exception the call raised ("none": it returned)
\* module_state: the module-level names of the engine (calculator.py:4),
\*         which every call reads when it runs
\* memo:   an observer's note of one earlier call and of what followed it
\* run:    the page computation in progress (its inputs, its position and
\*         the local variables it has assigned)
\* conn:   for each browser session, the tables of its DataLoader's
\*         in-memory database (data_loader.py:20, app.py:282)
\* cache:  the entries of st.cache_data, per function and argument key,
\*         shared by all sessions
VARIABLES op, args, result, exc, module_state, memo, run, conn, cache

vars == <<op, args, result, exc, module_state, memo, run, conn, cache>>

(***************************************************************************)
(* Exact rational arithmetic standing for Python's float operators.        *)
(*                                                                         *)
(* A number is <<n, d>> with n and d integers of the checker (d > 0,       *)
(* lowest terms) as long as every intermediate product fits; beyond that   *)
(* it is <<s, N, D>>: a sign s (1 or -1) and the magnitudes of numerator   *)
(* and denominator as sequences of limbs, least significant first, in      *)
(* base Base.  The long form is exact but not reduced to lowest terms, so  *)
(* two long numbers are compared with Eq and Lt, never with =.             *)
(***************************************************************************)
\* An operator F whose work is done by FV binds the values of its arguments
\* once, as the single element of a set: picking from {FV(u1) : u1 \in {x}}
\* is FV(x) with x evaluated before the body, as Python evaluates arguments.
Abs(x) == IF x < 0 THEN -x ELSE x

RECURSIVE Gcd(_, _)
Gcd(a, b) == IF b = 0 THEN a ELSE (CHOOSE picked \in {Gcd(b, r) : r \in {a % b}} : TRUE)

\* The rational n/d in lowest terms with a positive denominator (d # 0).
NormV(n, d) ==
    LET g == Gcd(Abs(n), Abs(d))
        s == IF d < 0 THEN -1 ELSE 1
    IN  <<(s * n) \div g, (s * d) \div g>>

Norm(n, d) == (CHOOSE picked \in {NormV(u1, u2) : u1 \in {n}, u2 \in {d}} : TRUE)

R(n) == <<n, 1>>

Q(n, d) == Norm(n, d)

INF == <<1, 0>>

Zero == R(0)

\* The largest integer of the checker, and the base of the limbs.
MaxInt == 2147483647

Base == 1000

IsBig(x) == Len(x) = 3

\* a * b stays within the integers.
Fits(a, b) == a = 0 \/ b = 0 \/ Abs(a) <= MaxInt \div Abs(b)

\* a * b stays within half the integers (a sum of two such products fits).
FitsHalf(a, b) == a = 0 \/ b = 0 \/ Abs(a) <= (MaxInt \div 2) \div Abs(b)

IntMax(p, q) == IF p > q THEN p ELSE q

IntMin(p, q) == IF p < q THEN p ELSE q

\* A function on 1 .. n as a sequence with its elements evaluated.
Tup(f, n) == SubSeq(f, 1, n)

\* The limbs of an integer n >= 0.
Limbs(n) ==
    IF n = 0 THEN <<>>
    ELSE IF n < Base THEN <<n>>
    ELSE IF n < Base * Base THEN <<n % Base, n \div Base>>
    ELSE IF n < Base * Base * Base THEN
        <<n % Base, (n \div Base) % Base, n \div (Base * Base)>>
    ELSE <<n % Base, (n \div Base) % Base, (n \div (Base * Base)) % Base,
           n \div (Base * Base * Base)>>

\* The integer of at most three limbs.
LimbsInt(s) ==
    (IF Len(s) >= 1 THEN s[1] ELSE 0)
    + (IF Len(s) >= 2 THEN s[2] * Base ELSE 0)
    + (IF Len(s) >= 3 THEN s[3] * Base * Base ELSE 0)

\* s without its leading (most significant) zero limbs.
LTrimV(s) ==
    LET zeros == {k \in 1 .. Len(s) : \A j \in k .. Len(s) : s[j] = 0}
    IN  SubSeq(s, 1, Len(s) - Cardinality(zeros))

LTrim(s) == (CHOOSE picked \in {LTrimV(u1) : u1 \in {s}} : TRUE)

\* One round of carrying: every column keeps its low limb and hands the
\* rest to the next column.
LRoundV(c) ==
    Tup([k \in 1 .. Len(c) + 1 |->
            (IF k <= Len(c) THEN c[k] % Base ELSE 0)
            + (IF k > 1 THEN c[k - 1] \div Base ELSE 0)], Len(c) + 1)

LRound(c) == (CHOOSE picked \in {LRoundV(u1) : u1 \in {c}} : TRUE)

\* Carries of at most 1 resolved at once: a column receives a carry when a
\* lower column overflows and every column in between is Base - 1 (there
\* are at most chain such columns).
LRippleV(v, chain) ==
    LET cin(k) ==
            \E d \in 1 .. IntMin(k - 1, chain + 1) :
                /\ v[k - d] >= Base
                /\ \A m \in (k - d + 1) .. (k - 1) : v[m] = Base - 1
    IN  Tup([k \in 1 .. Len(v) + 1 |->
                ((IF k <= Len(v) THEN v[k] ELSE 0) + (IF cin(k) THEN 1 ELSE 0)) % Base],
            Len(v) + 1)

LRipple(v) ==
    CHOOSE picked \in
        {LRippleV(u1, u2) :
            u1 \in {v}, u2 \in {Cardinality({m \in 1 .. Len(v) : v[m] = Base - 1})}} : TRUE

\* Columns below Base * Base * Base brought to limbs.
LNormalize(cols) == LTrim(LRipple(LRound(LRound(LRound(cols)))))

LAddV(a, b) ==
    LET n == IntMax(Len(a), Len(b))
    IN  LTrim(LRipple(Tup([k \in 1 .. n |->
                (IF k <= Len(a) THEN a[k] ELSE 0) + (IF k <= Len(b) THEN b[k] ELSE 0)], n)))

LAdd(a, b) == (CHOOSE picked \in {LAddV(u1, u2) : u1 \in {a}, u2 \in {b}} : TRUE)

\* -1, 0 or 1 as a is below, equal to or above b.
LCmpV(a, b) ==
    IF Len(a) # Len(b) THEN (IF Len(a) > Len(b) THEN 1 ELSE -1)
    ELSE LET same == {k \in 1 .. Len(a) : \A j \in k .. Len(a) : a[j] = b[j]}
             top == Len(a) - Cardinality(same)
         IN  IF top = 0 THEN 0 ELSE IF a[top] > b[top] THEN 1 ELSE -1

LCmp(a, b) == (CHOOSE picked \in {LCmpV(u1, u2) : u1 \in {a}, u2 \in {b}} : TRUE)

\* a - b for a >= b: a plus the complement of b, the top carry dropped.
LSubV(a, b) ==
    LET n == Len(a)
        sum == LRipple(Tup([k \in 1 .. n |->
                    a[k] + (Base - 1 - (IF k <= Len(b) THEN b[k] ELSE 0))
                    + (IF k = 1 THEN 1 ELSE 0)], n))
    IN  LTrim(SubSeq(sum, 1, n))

LSub(a, b) == (CHOOSE picked \in {LSubV(u1, u2) : u1 \in {a}, u2 \in {b}} : TRUE)

\* Column k of the product a * b: the sum of a[i] * b[k + 1 - i], lo <= i <= hi,
\* taken as the size of the bag that holds i that many times.
ColSum(a, b, k, lo, hi) ==
    LET terms == {i \in lo .. hi : a[i] # 0 /\ b[k + 1 - i] # 0}
    IN  IF \A i \in lo .. hi : a[i] = 0 \/ b[k + 1 - i] = 0 THEN 0
        ELSE BagCardinality([i \in terms |-> a[i] * b[k + 1 - i]])

LMulV(a, b) ==
    IF a = <<>> \/ b = <<>> THEN <<>>
    ELSE IF a = <<1>> THEN b
    ELSE IF b = <<1>> THEN a
    ELSE LNormalize(Tup([k \in 1 .. (Len(a) + Len(b) - 1) |->
                ColSum(a, b, k, IntMax(1, k + 1 - Len(b)), IntMin(k, Len(a)))],
            Len(a) + Len(b) - 1))

LMul(a, b) == (CHOOSE picked \in {LMulV(u1, u2) : u1 \in {a}, u2 \in {b}} : TRUE)

RECURSIVE LPowV(_, _)
LPowV(a, n) ==
    IF n = 0 THEN <<1>>
    ELSE (CHOOSE picked \in
            {IF n % 2 = 0 THEN LMul(h, h) ELSE LMul(LMul(h, h), a) :
            h \in {LPowV(a, n \div 2)}} : TRUE)

LPow(a, n) == (CHOOSE picked \in {LPowV(u1, u2) : u1 \in {a}, u2 \in {n}} : TRUE)

ToBig(x) ==
    IF IsBig(x) THEN x
    ELSE <<IF x[1] < 0 THEN -1 ELSE 1, Limbs(Abs(x[1])), Limbs(x[2])>>

\* The number s * N / D in the short form when it has one.
DemoteV(s, N, D) ==
    IF N = <<>> /\ D # <<>> THEN Zero
    ELSE IF Len(N) <= 3 /\ Len(D) <= 3 THEN Norm(s * LimbsInt(N), LimbsInt(D))
    ELSE <<s, N, D>>

Demote(s, N, D) == (CHOOSE picked \in
        {DemoteV(u1, u2, u3) :
        u1 \in {s}, u2 \in {N}, u3 \in {D}} : TRUE)

\* sa * p + sb * q over d, for signs sa and sb and magnitudes p, q and d.
SignedSum(sa, sb, p, q, d) ==
    IF sa = sb THEN Demote(sa, LAdd(p, q), d)
    ELSE (CHOOSE picked \in
            {IF c = 0 THEN Zero
                            ELSE IF c > 0 THEN Demote(sa, LSub(p, q), d)
                            ELSE Demote(sb, LSub(q, p), d) : c \in {LCmp(p, q)}} : TRUE)

BigAddV(a, b) ==
    (CHOOSE picked \in
            {SignedSum(a[1], b[1], p, q, d) :
            p \in {LMul(a[2], b[3])}, q \in {LMul(b[2], a[3])}, d \in {LMul(a[3], b[3])}} : TRUE)

BigAdd(x, y) == (CHOOSE picked \in {BigAddV(u1, u2) : u1 \in {ToBig(x)}, u2 \in {ToBig(y)}} : TRUE)

BigMulV(a, b) == Demote(a[1] * b[1], LMul(a[2], b[2]), LMul(a[3], b[3]))

BigMul(x, y) == (CHOOSE picked \in {BigMulV(u1, u2) : u1 \in {ToBig(x)}, u2 \in {ToBig(y)}} : TRUE)

\* sa * p < sb * q, for signs sa and sb and magnitudes p and q.
SignedLess(sa, sb, p, q) ==
    LET sp == IF p = <<>> THEN 0 ELSE sa
        sq == IF q = <<>> THEN 0 ELSE sb
    IN  IF sp # sq THEN sp < sq
        ELSE IF sp = 0 THEN FALSE
        ELSE IF sp > 0 THEN LCmp(p, q) < 0
        ELSE LCmp(p, q) > 0

BigLtV(a, b) ==
    (CHOOSE picked \in
            {SignedLess(a[1], b[1], p, q) :
            p \in {LMul(a[2], b[3])}, q \in {LMul(b[2], a[3])}} : TRUE)

BigLt(x, y) == (CHOOSE picked \in {BigLtV(u1, u2) : u1 \in {ToBig(x)}, u2 \in {ToBig(y)}} : TRUE)

IsZeroV(x) == ~IsBig(x) /\ x[1] = 0 /\ x[2] # 0

IsZero(x) == (CHOOSE picked \in {IsZeroV(u1) : u1 \in {x}} : TRUE)

NegV(x) == IF IsBig(x) THEN <<-x[1], x[2], x[3]>> ELSE <<-x[1], x[2]>>

Neg(x) == (CHOOSE picked \in {NegV(u1) : u1 \in {x}} : TRUE)

AddV(x, y) ==
    IF IsBig(x) \/ IsBig(y) THEN BigAdd(x, y)
    ELSE LET g == Gcd(x[2], y[2])
         IN  IF g # 0 /\ FitsHalf(x[1], y[2] \div g) /\ FitsHalf(y[1], x[2] \div g)
                /\ Fits(x[2] \div g, y[2])
             THEN Norm(x[1] * (y[2] \div g) + y[1] * (x[2] \div g), (x[2] \div g) * y[2])
             ELSE BigAdd(x, y)

Add(x, y) == (CHOOSE picked \in {AddV(u1, u2) : u1 \in {x}, u2 \in {y}} : TRUE)

Sub(x, y) == Add(x, Neg(y))

MulV(x, y) ==
    IF IsBig(x) \/ IsBig(y) THEN BigMul(x, y)
    ELSE LET g1 == Gcd(Abs(x[1]), y[2])
             g2 == Gcd(Abs(y[1]), x[2])
         IN  IF g1 # 0 /\ g2 # 0 /\ Fits(x[1] \div g1, y[1] \div g2)
                /\ Fits(x[2] \div g2, y[2] \div g1)
             THEN Norm((x[1] \div g1) * (y[1] \div g2), (x[2] \div g2) * (y[2] \div g1))
             ELSE BigMul(x, y)

Mul(x, y) == (CHOOSE picked \in {MulV(u1, u2) : u1 \in {x}, u2 \in {y}} : TRUE)

\* 1/x for x # 0.
InvV(x) ==
    IF IsBig(x) THEN <<x[1], x[3], x[2]>>
    ELSE IF x[1] < 0 THEN <<-x[2], -x[1]>> ELSE <<x[2], x[1]>>

Inv(x) == (CHOOSE picked \in {InvV(u1) : u1 \in {x}} : TRUE)

\* x / y for y # 0 (the callers test y first: Python raises on y = 0).
Div(x, y) == Mul(x, Inv(y))

\* x < y; also right when one side is INF.
LtV(x, y) ==
    IF ~IsBig(x) /\ ~IsBig(y) /\ Fits(x[1], y[2]) /\ Fits(y[1], x[2])
    THEN x[1] * y[2] < y[1] * x[2]
    ELSE BigLt(x, y)

Lt(x, y) == (CHOOSE picked \in {LtV(u1, u2) : u1 \in {x}, u2 \in {y}} : TRUE)

Le(x, y) == ~Lt(y, x)

\* x and y are the same number, whatever their form.
EqV(x, y) == ~Lt(x, y) /\ ~Lt(y, x)

Eq(x, y) == (CHOOSE picked \in {EqV(u1, u2) : u1 \in {x}, u2 \in {y}} : TRUE)

\* Python's max(a, b) and min(a, b): the first argument unless the second
\* is strictly greater (smaller).
PyMaxV(a, b) == IF Lt(a, b) THEN b ELSE a

PyMax(a, b) == (CHOOSE picked \in {PyMaxV(u1, u2) : u1 \in {a}, u2 \in {b}} : TRUE)

PyMinV(a, b) == IF Lt(b, a) THEN b ELSE a

PyMin(a, b) == (CHOOSE picked \in {PyMinV(u1, u2) : u1 \in {a}, u2 \in {b}} : TRUE)

\* x ** n for an integer n (x # 0 when n < 0).
PowV(a, n) ==
    (CHOOSE picked \in
            {IF n = 0 THEN R(1) ELSE IF n < 0 THEN Inv(p) ELSE p :
            p \in {Demote(IF a[1] < 0 /\ Abs(n) % 2 = 1 THEN -1 ELSE 1,
                   LPow(a[2], Abs(n)), LPow(a[3], Abs(n)))}} : TRUE)

Pow(x, n) == (CHOOSE picked \in {PowV(u1, u2) : u1 \in {ToBig(x)}, u2 \in {n}} : TRUE)

\* What a call hands back: a value, or an exception.
Returns(v) == [exc |-> "none", val |-> v]

Raises(e) == [exc |-> e, val |-> <<0, 0>>]

(***************************************************************************)
(* src/src/data/constants.py                                               *)
(***************************************************************************)
\* The values the engine's module-level names are bound to at import.
constants_py ==
    [ROOMMATE_REDUCTION_RATE |-> Q(25, 100),
     MAX_ROOMMATE_DISCOUNT |-> Q(75, 100),
     COMFORT_WEIGHTS |->
        [dti |-> Q(40, 100), graduation_rate |-> Q(30, 100), roi |-> Q(30, 100)]]

\* Mutant: a fifth of the housing cost taken off for each roommate.
ROOMMATE_REDUCTION_RATE_fifth == Q(20, 100)

ROOMMATE_REDUCTION_RATE == module_state.ROOMMATE_REDUCTION_RATE

\* Mutant: the cap on the discount set to the whole of the housing cost.
MAX_ROOMMATE_DISCOUNT_uncapped == Q(100, 100)

MAX_ROOMMATE_DISCOUNT == module_state.MAX_ROOMMATE_DISCOUNT

\* Mutant: the weights of the debt ratio and of the graduation rate exchanged.
COMFORT_WEIGHTS_exchanged ==
    [dti |-> Q(30, 100), graduation_rate |-> Q(40, 100), roi |-> Q(30, 100)]

COMFORT_WEIGHTS == module_state.COMFORT_WEIGHTS

(***************************************************************************)
(* src/src/core/calculator.py: the engine's operations.                    *)
(***************************************************************************)
\* Mutant: the sum returned without the floor at 0.
calculate_total_cost_of_attendance_nofloor(tuition, housing, food, transport, books, misc, roommate_count) ==
    LET roommate_discount ==
            PyMin(Mul(R(roommate_count), ROOMMATE_REDUCTION_RATE), MAX_ROOMMATE_DISCOUNT)
        adjusted_housing == Mul(housing, Sub(R(1), roommate_discount))
    IN  Add(Add(Add(Add(Add(tuition, adjusted_housing), food), transport), books), misc)

calculate_total_cost_of_attendance(tuition, housing, food, transport, books, misc, roommate_count) ==
    LET roommate_discount ==
            PyMin(Mul(R(roommate_count), ROOMMATE_REDUCTION_RATE), MAX_ROOMMATE_DISCOUNT)
        adjusted_housing == Mul(housing, Sub(R(1), roommate_discount))
        total_cost ==
            Add(Add(Add(Add(Add(tuition, adjusted_housing), food), transport), books), misc)
    IN  PyMax(Zero, total_cost)

\* Mutant: the yearly gap taken without the floor at 0.
calculate_cumulative_debt_nofloor(yearly_cost, grants, scholarships, work_study, family_contribution, years) ==
    LET yearly_aid == Add(Add(Add(grants, scholarships), work_study), family_contribution)
    IN  Mul(Sub(yearly_cost, yearly_aid), R(years))

calculate_cumulative_debt(yearly_cost, grants, scholarships, work_study, family_contribution, years) ==
    LET yearly_aid == Add(Add(Add(grants, scholarships), work_study), family_contribution)
        yearly_debt == PyMax(Zero, Sub(yearly_cost, yearly_aid))
        total_debt == Mul(yearly_debt, R(years))
    IN  total_debt

\* Mutant: the interest-free payment spread over the years, not the months.
calculate_loan_payment_per_year(principal, annual_rate, years) ==
    IF Le(principal, Zero) THEN Returns(Zero)
    ELSE IF Le(annual_rate, Zero) THEN
        IF years = 0 THEN Raises("ZeroDivisionError")
        ELSE Returns(Div(principal, R(years)))
    ELSE
        LET monthly_rate == Div(annual_rate, R(12))
            num_payments == years * 12
        IN  (CHOOSE picked \in
                {IF IsZero(Sub(growth, R(1))) THEN Raises("ZeroDivisionError")
                ELSE Returns(Div(Mul(principal, Mul(monthly_rate, growth)),
                                 Sub(growth, R(1)))) :
                 growth \in {Pow(Add(R(1), monthly_rate), num_payments)}} : TRUE)

\* Mutant: the yearly rate charged every month (the division by 12 left out).
calculate_loan_payment_yearly_rate(principal, annual_rate, years) ==
    IF Le(principal, Zero) THEN Returns(Zero)
    ELSE IF Le(annual_rate, Zero) THEN
        IF years * 12 = 0 THEN Raises("ZeroDivisionError")
        ELSE Returns(Div(principal, R(years * 12)))
    ELSE
        LET monthly_rate == annual_rate
            num_payments == years * 12
        IN  (CHOOSE picked \in
                {IF IsZero(Sub(growth, R(1))) THEN Raises("ZeroDivisionError")
                ELSE Returns(Div(Mul(principal, Mul(monthly_rate, growth)),
                                 Sub(growth, R(1)))) :
                 growth \in {Pow(Add(R(1), monthly_rate), num_payments)}} : TRUE)

\* The only operation with a division whose divisor no branch tests.
calculate_loan_payment(principal, annual_rate, years) ==
    IF Le(principal, Zero) THEN Returns(Zero)
    ELSE IF Le(annual_rate, Zero) THEN
        IF years * 12 = 0 THEN Raises("ZeroDivisionError")
        ELSE Returns(Div(principal, R(years * 12)))
    ELSE
        LET monthly_rate == Div(annual_rate, R(12))
            num_payments == years * 12
        IN  (CHOOSE picked \in
                {IF IsZero(Sub(growth, R(1))) THEN Raises("ZeroDivisionError")
                ELSE Returns(Div(Mul(principal, Mul(monthly_rate, growth)),
                                 Sub(growth, R(1)))) :
                 growth \in {Pow(Add(R(1), monthly_rate), num_payments)}} : TRUE)

\* Mutant: growth that does not compound (two and four times the rate).
calculate_earnings_projection_simple(year1_salary, growth_rate) ==
    LET year1 == year1_salary
        year3 == Mul(year1_salary, Add(R(1), Mul(R(2), growth_rate)))
        year5 == Mul(year1_salary, Add(R(1), Mul(R(4), growth_rate)))
    IN  <<year1, year3, year5>>

calculate_earnings_projection(year1_salary, growth_rate) ==
    LET year1 == year1_salary
        year3 == Mul(year1_salary, Pow(Add(R(1), growth_rate), 2))
        year5 == Mul(year1_salary, Pow(Add(R(1), growth_rate), 4))
    IN  <<year1, year3, year5>>

\* Mutant: the first year estimated with the exact 1.03 ** 4, not with 1.126.
calculate_roi_exact_growth(total_cost, year5_earnings, baseline_earnings) ==
    IF Le(total_cost, Zero) THEN Zero
    ELSE
        LET year1_estimate == Div(year5_earnings, Pow(Q(103, 100), 4))
            avg_earnings == Div(Add(year1_estimate, year5_earnings), R(2))
            five_year_earnings == Mul(avg_earnings, R(5))
            five_year_baseline == Mul(baseline_earnings, R(5))
            net_benefit == Sub(Sub(five_year_earnings, five_year_baseline), total_cost)
        IN  Mul(Div(net_benefit, total_cost), R(100))

\* Mutant: only a total cost of exactly 0 short-circuits to 0.
calculate_roi_zero_guard(total_cost, year5_earnings, baseline_earnings) ==
    IF IsZero(total_cost) THEN Zero
    ELSE
        LET year1_estimate == Div(year5_earnings, Q(1126, 1000))
            avg_earnings == Div(Add(year1_estimate, year5_earnings), R(2))
            five_year_earnings == Mul(avg_earnings, R(5))
            five_year_baseline == Mul(baseline_earnings, R(5))
            net_benefit == Sub(Sub(five_year_earnings, five_year_baseline), total_cost)
        IN  Mul(Div(net_benefit, total_cost), R(100))

calculate_roi(total_cost, year5_earnings, baseline_earnings) ==
    IF Le(total_cost, Zero) THEN Zero
    ELSE
        LET year1_estimate == Div(year5_earnings, Q(1126, 1000))
            avg_earnings == Div(Add(year1_estimate, year5_earnings), R(2))
            five_year_earnings == Mul(avg_earnings, R(5))
            five_year_baseline == Mul(baseline_earnings, R(5))
            net_benefit == Sub(Sub(five_year_earnings, five_year_baseline), total_cost)
        IN  Mul(Div(net_benefit, total_cost), R(100))

\* Mutant: the quotient returned without the cap at 50.
calculate_payback_period_uncapped(total_debt, annual_salary, payment_rate) ==
    IF Le(total_debt, Zero) THEN Zero
    ELSE IF Le(annual_salary, Zero) THEN INF
    ELSE
        LET annual_payment == Mul(annual_salary, payment_rate)
        IN  IF Le(annual_payment, Zero) THEN INF
            ELSE Div(total_debt, annual_payment)

\* Mutant: the test of the salary left out, the test of the payment kept.
calculate_payback_period_nosalarytest(total_debt, annual_salary, payment_rate) ==
    IF Le(total_debt, Zero) THEN Zero
    ELSE
        LET annual_payment == Mul(annual_salary, payment_rate)
        IN  IF Le(annual_payment, Zero) THEN INF
            ELSE PyMin(Div(total_debt, annual_payment), R(50))

\* Mutant: only a payment of exactly 0 is taken for no payment at all.
calculate_payback_period_signed(total_debt, annual_salary, payment_rate) ==
    IF Le(total_debt, Zero) THEN Zero
    ELSE IF Le(annual_salary, Zero) THEN INF
    ELSE
        LET annual_payment == Mul(annual_salary, payment_rate)
        IN  IF IsZero(annual_payment) THEN INF
            ELSE PyMin(Div(total_debt, annual_payment), R(50))

calculate_payback_period(total_debt, annual_salary, payment_rate) ==
    IF Le(total_debt, Zero) THEN Zero
    ELSE IF Le(annual_salary, Zero) THEN INF
    ELSE
        LET annual_payment == Mul(annual_salary, payment_rate)
        IN  IF Le(annual_payment, Zero) THEN INF
            ELSE PyMin(Div(total_debt, annual_payment), R(50))

\* Mutant: the ratio returned without the cap at 100.
calculate_dti_ratio_uncapped(monthly_debt_payment, monthly_income) ==
    IF Le(monthly_income, Zero) THEN Zero
    ELSE Mul(Div(monthly_debt_payment, monthly_income), R(100))

\* Mutant: no income counted as the worst ratio.
calculate_dti_ratio_no_income_max(monthly_debt_payment, monthly_income) ==
    IF Le(monthly_income, Zero) THEN R(100)
    ELSE PyMin(Mul(Div(monthly_debt_payment, monthly_income), R(100)), R(100))

calculate_dti_ratio(monthly_debt_payment, monthly_income) ==
    IF Le(monthly_income, Zero) THEN Zero
    ELSE PyMin(Mul(Div(monthly_debt_payment, monthly_income), R(100)), R(100))

\* Mutant: the weighted sum returned without the final clamp to [0, 100].
calculate_comfort_index_unclamped(dti, graduation_rate, roi) ==
    LET dti_score == PyMax(Zero, Sub(R(100), Mul(dti, R(2))))
        grad_score == Mul(graduation_rate, R(100))
        roi_score == PyMax(Zero, PyMin(R(100), Div(Add(roi, R(100)), R(2))))
    IN  Add(Add(Mul(dti_score, COMFORT_WEIGHTS.dti),
                Mul(grad_score, COMFORT_WEIGHTS.graduation_rate)),
            Mul(roi_score, COMFORT_WEIGHTS.roi))

\* Mutant: the debt score 100 - 2 * dti without its floor at 0.
calculate_comfort_index_nofloor(dti, graduation_rate, roi) ==
    LET dti_score == Sub(R(100), Mul(dti, R(2)))
        grad_score == Mul(graduation_rate, R(100))
        roi_score == PyMax(Zero, PyMin(R(100), Div(Add(roi, R(100)), R(2))))
        comfort_index ==
            Add(Add(Mul(dti_score, COMFORT_WEIGHTS.dti),
                    Mul(grad_score, COMFORT_WEIGHTS.graduation_rate)),
                Mul(roi_score, COMFORT_WEIGHTS.roi))
    IN  PyMax(Zero, PyMin(R(100), comfort_index))

\* Mutant: the graduation score counts those who do not graduate.
calculate_comfort_index_dropout(dti, graduation_rate, roi) ==
    LET dti_score == PyMax(Zero, Sub(R(100), Mul(dti, R(2))))
        grad_score == Mul(Sub(R(1), graduation_rate), R(100))
        roi_score == PyMax(Zero, PyMin(R(100), Div(Add(roi, R(100)), R(2))))
        comfort_index ==
            Add(Add(Mul(dti_score, COMFORT_WEIGHTS.dti),
                    Mul(grad_score, COMFORT_WEIGHTS.graduation_rate)),
                Mul(roi_score, COMFORT_WEIGHTS.roi))
    IN  PyMax(Zero, PyMin(R(100), comfort_index))

calculate_comfort_index(dti, graduation_rate, roi) ==
    LET dti_score == PyMax(Zero, Sub(R(100), Mul(dti, R(2))))
        grad_score == Mul(graduation_rate, R(100))
        roi_score == PyMax(Zero, PyMin(R(100), Div(Add(roi, R(100)), R(2))))
        comfort_index ==
            Add(Add(Mul(dti_score, COMFORT_WEIGHTS.dti),
                    Mul(grad_score, COMFORT_WEIGHTS.graduation_rate)),
                Mul(roi_score, COMFORT_WEIGHTS.roi))
    IN  PyMax(Zero, PyMin(R(100), comfort_index))

\* Mutant: the difference returned without the floor at 0.
calculate_net_price_nofloor(sticker_price, grants, scholarships) ==
    Sub(Sub(sticker_price, grants), scholarships)

calculate_net_price(sticker_price, grants, scholarships) ==
    LET net == Sub(Sub(sticker_price, grants), scholarships)
    IN  PyMax(Zero, net)

\* Mutant: the gross monthly salary (the tax left out).
calculate_monthly_budget_gross(annual_salary, tax_rate) ==
    Div(annual_salary, R(12))

calculate_monthly_budget(annual_salary, tax_rate) ==
    LET annual_take_home == Mul(annual_salary, Sub(R(1), tax_rate))
        monthly_take_home == Div(annual_take_home, R(12))
    IN  monthly_take_home

(***************************************************************************)
(* Bounds of the model and the arguments the callers are drawn from.       *)
(* Every set holds zero, a negative and a positive value, and the values   *)
(* the specification's examples name.                                      *)
(***************************************************************************)
MaxRoommates == 4

MaxYears == 5

MaxDtiStep == 8

MaxGradStep == 8

MaxRoiStep == 5

RoommateCounts == (-1 .. MaxRoommates) \cup {100}

YearCounts == -1 .. MaxYears

TermYears == {-1, 0, 1, 2, 10}

Tuitions == {R(-20000), R(0), R(10000)}

Housings == {R(-12000), R(0), R(12000)}

Foods == {R(0), R(4800)}

Transports == {R(0), R(2400)}

BooksCosts == {R(-1200), R(0), R(1200)}

MiscCosts == {R(0), R(2000)}

YearlyCosts == {R(-5000), R(0), R(20000), R(26400)}

Grants == {R(0), R(5000), R(20000)}

Scholarships == {R(0), R(5000)}

WorkStudies == {R(0), R(2500)}

FamilyContributions == {R(-1000), R(0), R(30000)}

Principals == {R(-1000), R(0), R(100), R(12000), R(30000)}

AnnualRates == {Q(-1, 20), R(0), Q(55, 1000), R(6), R(12)}

LoanArgs == [principal : Principals, annual_rate : AnnualRates, years : TermYears]

Salaries == {R(-50000), R(0), R(1), R(50000)}

GrowthRates == {R(-2), R(-1), R(0), Q(3, 100), Q(1, 2)}

TotalCosts == {R(-100), R(0), R(1000), R(105600)}

Year5Earnings == {R(-563), R(0), R(56300), R(112600), Q(112550881, 2000)}

BaselineEarnings == {R(0), R(35000)}

TotalDebts == {R(-1), R(0), R(25000), R(50000), R(500000)}

PaymentRates == {Q(-1, 10), R(0), Q(1, 10), R(1)}

MonthlyPayments == {R(-2000), R(0), R(250), R(500), R(2000)}

MonthlyIncomes == {R(-1000), R(0), R(1000), R(3250)}

Dtis == {R(25 * k) : k \in -2 .. MaxDtiStep}

GraduationRates == {Q(k, 4) : k \in -2 .. MaxGradStep}

Rois == {R(100 * k) : k \in -MaxRoiStep .. MaxRoiStep} \cup {R(50), R(-50)}

StickerPrices == {R(-1000), R(0), R(10000), R(30000)}

TaxRates == {R(0), Q(22, 100), R(1), Q(3, 2)}

\* A missing value: None, float('nan'), and a local not yet assigned.
NONE == <<"None">>

NAN == <<"nan">>

UNSET == <<"unset">>

\* None where a record (a dict) is expected.
NoRecord == [none |-> TRUE]

(***************************************************************************)
(* The data a DataLoader holds (src/src/data/data_loader.py).  Every       *)
(* browser session builds its own loader with its own in-memory database   *)
(* (app.py:282, data_loader.py:20); the tables are loaded from the same    *)
(* files, so all sessions start with the same rows.  The programs table is *)
(* a bag of rows: an INSERT adds a copy.                                   *)
(***************************************************************************)
NumSessions == 2

Sessions == 1 .. NumSessions

\* The institutions table: 100 has programs in the data, 200 has none, and
\* no institution has the id 300.
InstitutionRows ==
    {[unit_id |-> 100, name |-> "Alpha University", state |-> "CA"],
     [unit_id |-> 200, name |-> "Beta College", state |-> "TX"]}

UnitIds == {200, 300}

Row(unit_id, cip_code, program_name, earnings_1yr) ==
    [unit_id |-> unit_id, cip_code |-> cip_code,
     program_name |-> program_name, credential_level |-> 3,
     median_earnings_1yr |-> earnings_1yr]

ProgramRows == SetToBag({Row(100, "513801", "Nursing", R(62000))})

\* The three rows made for an institution that has none.
create_fallback_program_data(unit_id, institution_name) ==
    {Row(unit_id, "520000", "Business Administration", R(45000)),
     Row(unit_id, "110000", "Computer Science", R(55000)),
     Row(unit_id, "140000", "Engineering", R(60000))}

FallbackCips == {"520000", "110000", "140000"}

\* The cost and earnings tables by state: "CA" has a value, the row of
\* "TX" holds NULL, and "ZZ" has no row.
StateCodes == {"CA", "TX", "ZZ"}

HousingRows ==
    {[state |-> "CA", annual_1br |-> R(18000)],
     [state |-> "TX", annual_1br |-> NONE]}

EarningsRows ==
    {[state |-> "CA", median_earnings |-> R(58500)],
     [state |-> "TX", median_earnings |-> NONE]}

\* The tables after _load_tables; a table that was not created has
\* exists = FALSE, and a query on it raises.
Tables(housing_loaded, earnings_loaded) ==
    [institutions |-> InstitutionRows,
     programs |-> ProgramRows,
     housing_costs |-> [exists |-> housing_loaded, rows |-> HousingRows],
     earnings_by_state |-> [exists |-> earnings_loaded, rows |-> EarningsRows]]

\* st.cache_data: an entry per function and per argument tuple (the
\* loader itself, the parameter _self, is not part of the key).
Miss == [hit |-> FALSE]

Hit(value) == [hit |-> TRUE, value |-> value]

EmptyCache ==
    [get_programs |-> [u \in UnitIds |-> Miss],
     get_institution_details |-> [u \in UnitIds |-> Miss],
     get_program_details |-> [k \in {200} \X FallbackCips |-> Miss],
     get_state_housing_cost |-> [st \in StateCodes |-> Miss],
     get_state_earnings |-> [st \in StateCodes |-> Miss]]

(***************************************************************************)
(* The state machine: a caller is idle (op = "none"), calls one operation  *)
(* of the engine with arguments of its choice, and takes the result.  The  *)
(* engine keeps nothing between calls: the variables are the caller's view *)
(* of the last call.                                                       *)
(***************************************************************************)
NoArgs == [none |-> 0]

NoCall == [op |-> "none"]

NoRun == [page |-> "none"]

\* The observer's note after the call of o with the arguments a: whether
\* the noted call has been made again, or another call has come in between.
Observe(o, a) ==
    IF memo = NoCall THEN NoCall
    ELSE IF o = memo.op /\ a = memo.args THEN [memo EXCEPT !.again = TRUE]
    ELSE [memo EXCEPT !.between = TRUE]

Init ==
    /\ op = "none"
    /\ args = NoArgs
    /\ result = Zero
    /\ exc = "none"
    /\ module_state = constants_py
    /\ memo = NoCall
    /\ run = NoRun
    /\ conn = [s \in Sessions |-> Tables(TRUE, TRUE)]
    /\ cache = EmptyCache

CallTotalCost ==
    /\ op = "none"
    /\ \E a \in [tuition : Tuitions, housing : Housings, food : Foods,
                 transport : Transports, books : BooksCosts, misc : MiscCosts,
                 roommate_count : RoommateCounts] :
        /\ op' = "total_cost"
        /\ args' = a
        /\ result' = calculate_total_cost_of_attendance(a.tuition, a.housing, a.food,
                        a.transport, a.books, a.misc, a.roommate_count)
        /\ exc' = "none"
    /\ memo' = Observe(op', args')
    /\ UNCHANGED <<module_state, run, conn, cache>>

CallCumulativeDebt ==
    /\ op = "none"
    /\ \E a \in [yearly_cost : YearlyCosts, grants : Grants, scholarships : Scholarships,
                 work_study : WorkStudies, family_contribution : FamilyContributions,
                 years : YearCounts] :
        /\ op' = "cumulative_debt"
        /\ args' = a
        /\ result' = calculate_cumulative_debt(a.yearly_cost, a.grants, a.scholarships,
                        a.work_study, a.family_contribution, a.years)
        /\ exc' = "none"
    /\ memo' = Observe(op', args')
    /\ UNCHANGED <<module_state, run, conn, cache>>

CallLoanPayment ==
    /\ op = "none"
    /\ \E a \in LoanArgs :
        \E r \in {calculate_loan_payment(a.principal, a.annual_rate, a.years)} :
            /\ op' = "loan_payment"
            /\ args' = a
            /\ result' = r.val
            /\ exc' = r.exc
    /\ memo' = Observe(op', args')
    /\ UNCHANGED <<module_state, run, conn, cache>>

CallEarningsProjection ==
    /\ op = "none"
    /\ \E a \in [year1_salary : Salaries, growth_rate : GrowthRates] :
        /\ op' = "earnings_projection"
        /\ args' = a
        /\ result' = calculate_earnings_projection(a.year1_salary, a.growth_rate)
        /\ exc' = "none"
    /\ memo' = Observe(op', args')
    /\ UNCHANGED <<module_state, run, conn, cache>>

CallRoi ==
    /\ op = "none"
    /\ \E a \in [total_cost : TotalCosts, year5_earnings : Year5Earnings,
                 baseline_earnings : BaselineEarnings] :
        /\ op' = "roi"
        /\ args' = a
        /\ result' = calculate_roi(a.total_cost, a.year5_earnings, a.baseline_earnings)
        /\ exc' = "none"
    /\ memo' = Observe(op', args')
    /\ UNCHANGED <<module_state, run, conn, cache>>

CallPaybackPeriod ==
    /\ op = "none"
    /\ \E a \in [total_debt : TotalDebts, annual_salary : Salaries,
                 payment_rate : PaymentRates] :
        /\ op' = "payback_period"
        /\ args' = a
        /\ result' = calculate_payback_period(a.total_debt, a.annual_salary, a.payment_rate)
        /\ exc' = "none"
    /\ memo' = Observe(op', args')
    /\ UNCHANGED <<module_state, run, conn, cache>>

CallDtiRatio ==
    /\ op = "none"
    /\ \E a \in [monthly_debt_payment : MonthlyPayments, monthly_income : MonthlyIncomes] :
        /\ op' = "dti_ratio"
        /\ args' = a
        /\ result' = calculate_dti_ratio(a.monthly_debt_payment, a.monthly_income)
        /\ exc' = "none"
    /\ memo' = Observe(op', args')
    /\ UNCHANGED <<module_state, run, conn, cache>>

\* Mutant: the call retunes the weights it has just read.
CallComfortIndex_retuning ==
    /\ op = "none"
    /\ \E a \in [dti : Dtis, graduation_rate : GraduationRates, roi : Rois] :
        /\ op' = "comfort_index"
        /\ args' = a
        /\ result' = calculate_comfort_index(a.dti, a.graduation_rate, a.roi)
        /\ exc' = "none"
    /\ memo' = Observe(op', args')
    /\ module_state' = [module_state EXCEPT !.COMFORT_WEIGHTS =
            [dti |-> Q(50, 100), graduation_rate |-> Q(25, 100), roi |-> Q(25, 100)]]
    /\ UNCHANGED <<run, conn, cache>>

CallComfortIndex ==
    /\ op = "none"
    /\ \E a \in [dti : Dtis, graduation_rate : GraduationRates, roi : Rois] :
        /\ op' = "comfort_index"
        /\ args' = a
        /\ result' = calculate_comfort_index(a.dti, a.graduation_rate, a.roi)
        /\ exc' = "none"
    /\ memo' = Observe(op', args')
    /\ UNCHANGED <<module_state, run, conn, cache>>

CallNetPrice ==
    /\ op = "none"
    /\ \E a \in [sticker_price : StickerPrices, grants : Grants,
                 scholarships : Scholarships] :
        /\ op' = "net_price"
        /\ args' = a
        /\ result' = calculate_net_price(a.sticker_price, a.grants, a.scholarships)
        /\ exc' = "none"
    /\ memo' = Observe(op', args')
    /\ UNCHANGED <<module_state, run, conn, cache>>

CallMonthlyBudget ==
    /\ op = "none"
    /\ \E a \in [annual_salary : Salaries, tax_rate : TaxRates] :
        /\ op' = "monthly_budget"
        /\ args' = a
        /\ result' = calculate_monthly_budget(a.annual_salary, a.tax_rate)
        /\ exc' = "none"
    /\ memo' = Observe(op', args')
    /\ UNCHANGED <<module_state, run, conn, cache>>

\* The caller has taken the result (or caught the exception) and is idle again.
Return ==
    /\ op # "none"
    /\ op' = "none"
    /\ args' = NoArgs
    /\ result' = Zero
    /\ exc' = "none"
    /\ UNCHANGED <<module_state, memo, run, conn, cache>>

Next ==
    \/ CallTotalCost
    \/ CallCumulativeDebt
    \/ CallLoanPayment
    \/ CallEarningsProjection
    \/ CallRoi
    \/ CallPaybackPeriod
    \/ CallDtiRatio
    \/ CallComfortIndex
    \/ CallNetPrice
    \/ CallMonthlyBudget
    \/ Return

Spec == Init /\ [][Next]_vars

(***************************************************************************)
(* The engine under observation: an observer notes one call and its        *)
(* result, and watches the calls that follow.                              *)
(***************************************************************************)
\* The calls the observer may note: one of each operation that reads a
\* module-level name, one that reads none, and one that raises.
Probes ==
    {[op |-> "total_cost",
      args |-> [tuition |-> R(10000), housing |-> R(12000), food |-> R(4800),
                transport |-> R(2400), books |-> R(1200), misc |-> R(2000),
                roommate_count |-> 2]],
     [op |-> "comfort_index",
      args |-> [dti |-> R(25), graduation_rate |-> Q(1, 2), roi |-> R(50)]],
     [op |-> "roi",
      args |-> [total_cost |-> R(105600), year5_earnings |-> R(56300),
                baseline_earnings |-> R(35000)]],
     [op |-> "loan_payment",
      args |-> [principal |-> R(100), annual_rate |-> Zero, years |-> 0]]}

Remember ==
    /\ memo = NoCall
    /\ [op |-> op, args |-> args] \in Probes
    /\ memo' = [op |-> op, args |-> args, result |-> result, exc |-> exc,
                between |-> FALSE, again |-> FALSE]
    /\ UNCHANGED <<op, args, result, exc, module_state, run, conn, cache>>

StatelessNext ==
    \/ Next
    \/ Remember

StatelessSpec == Init /\ [][StatelessNext]_vars

(***************************************************************************)
(* The two pages that run the engine: src/src/ui/planner.py and            *)
(* src/src/ui/compare.py.  A page computation is a run: its inputs (the    *)
(* institution and program records, the results of the data loader's       *)
(* lookups, the sidebar's parameters), the statement it is at (pc) and the *)
(* local variables assigned so far.  A record is a Python dict; a missing  *)
(* value is NONE (None) or NAN (float('nan')).                             *)
(***************************************************************************)
\* bool(x) of a number or None: None and 0 are false, nan is true.
Truthy(x) == IF x = NONE THEN FALSE ELSE IF x = NAN THEN TRUE ELSE ~IsZero(x)

\* x or y
PyOr(x, y) == IF Truthy(x) THEN x ELSE y

\* d.get(k, default): the value under k, None included, or the default.
DictGet(d, k, default) == IF k \in DOMAIN d THEN d[k] ELSE default

\* Mutant: earnings of 0 taken for missing too.
IsNa_zero_too(x) == x = NAN \/ x = NONE \/ x = Zero

\* pd.isna(x)
IsNa(x) == x = NAN \/ x = NONE

DEFAULT_BOOKS_YEARLY == R(1200)

DEFAULT_MISC_YEARLY == R(2000)

DEFAULT_BASELINE_EARNINGS == R(35000)

HOUSING_MULTIPLIERS == [on_campus |-> R(1), off_campus |-> R(1), at_home |-> Q(3, 10)]

DEFAULT_PAYMENT_RATE == Q(10, 100)

DEFAULT_GRADUATION_RATE == Q(5, 10)

\* The default of calculate_earnings_projection's parameter growth_rate.
DEFAULT_GROWTH_RATE == Q(3, 100)

NoLocals ==
    [base_housing |-> UNSET, tuition |-> UNSET, annual_housing |-> UNSET,
     annual_food |-> UNSET, annual_transport |-> UNSET, annual_books |-> UNSET,
     annual_misc |-> UNSET, total_annual_cost |-> UNSET, cumulative_debt |-> UNSET,
     year1_earnings |-> UNSET, year1 |-> UNSET, year3 |-> UNSET, year5 |-> UNSET,
     roi |-> UNSET, monthly_payment |-> UNSET, monthly_income |-> UNSET,
     dti |-> UNSET, payback |-> UNSET, grad_rate |-> UNSET, comfort |-> UNSET,
     metrics |-> UNSET]

NoEngineCall == [op |-> "none", args |-> NoArgs, result |-> Zero, exc |-> "none"]

\* A statement that calls nothing of the engine: the locals after it and
\* the statement that follows.
Goto(next, loc) == [pc |-> next, loc |-> loc, call |-> NoEngineCall]

\* A statement that raises outside the engine.
PageRaises(e, loc) ==
    [pc |-> "raised", loc |-> loc,
     call |-> [op |-> "none", args |-> NoArgs, result |-> Zero, exc |-> e]]

\* A statement that calls the operation o of the engine with the arguments
\* a; r is what the call hands back, newloc the locals once it is assigned.
Called(next, newloc, loc, o, a, r) ==
    IF r.exc # "none"
    THEN [pc |-> "raised", loc |-> loc,
          call |-> [op |-> o, args |-> a, result |-> r.val, exc |-> r.exc]]
    ELSE [pc |-> next, loc |-> newloc,
          call |-> [op |-> o, args |-> a, result |-> r.val, exc |-> "none"]]

\* compare.py, calculate_program_metrics: one statement of its body.
compare_step(pc, inp, loc) ==
    LET inst_details == inp.inst_details
        prog_details == inp.prog_details
        data_loader == inp.data_loader
        shared_params == inp.shared_params
    IN  CASE pc = "tuition" ->
            Goto("base_housing", [loc EXCEPT !.tuition =
                IF inst_details.control_type = 1
                THEN PyOr(DictGet(inst_details, "tuition_in_state", R(10000)), R(10000))
                ELSE PyOr(DictGet(inst_details, "tuition_out_state", R(30000)), R(30000))])
          [] pc = "base_housing" ->
            LET looked_up == data_loader.get_state_housing_cost
            IN  Goto("costs", [loc EXCEPT !.base_housing =
                    IF shared_params.housing_type = "Living at Home"
                    THEN Mul(looked_up, HOUSING_MULTIPLIERS.at_home)
                    ELSE looked_up])
          [] pc = "costs" ->
            Goto("total_annual_cost",
                 [loc EXCEPT !.annual_housing = loc.base_housing,
                             !.annual_food = Mul(shared_params.food_monthly, R(12)),
                             !.annual_transport = Mul(shared_params.transport_monthly, R(12)),
                             !.annual_books = DEFAULT_BOOKS_YEARLY,
                             !.annual_misc = DEFAULT_MISC_YEARLY])
          [] pc = "total_annual_cost" ->
            LET a == [tuition |-> loc.tuition, housing |-> loc.annual_housing,
                      food |-> loc.annual_food, transport |-> loc.annual_transport,
                      books |-> loc.annual_books, misc |-> loc.annual_misc,
                      roommate_count |-> shared_params.roommate_count]
            IN  (CHOOSE picked \in
                    {Called("cumulative_debt", [loc EXCEPT !.total_annual_cost = r], loc,
                        "total_cost", a, Returns(r)) :
                     r \in {calculate_total_cost_of_attendance(a.tuition, a.housing, a.food,
                        a.transport, a.books, a.misc, a.roommate_count)}} : TRUE)
          [] pc = "cumulative_debt" ->
            LET a == [yearly_cost |-> loc.total_annual_cost,
                      grants |-> shared_params.grants,
                      scholarships |-> shared_params.scholarships,
                      work_study |-> shared_params.work_study,
                      family_contribution |-> shared_params.family_contribution,
                      years |-> 4]
            IN  (CHOOSE picked \in
                    {Called("year1_earnings", [loc EXCEPT !.cumulative_debt = r], loc,
                        "cumulative_debt", a, Returns(r)) :
                     r \in {calculate_cumulative_debt(a.yearly_cost, a.grants, a.scholarships,
                        a.work_study, a.family_contribution, a.years)}} : TRUE)
          [] pc = "year1_earnings" ->
            IF prog_details = NoRecord THEN PageRaises("AttributeError", loc)
            ELSE LET got == DictGet(prog_details, "median_earnings_1yr", NONE)
                 IN  Goto("projection", [loc EXCEPT !.year1_earnings =
                        IF IsNa(got) \/ got = NONE THEN data_loader.get_state_earnings
                        ELSE got])
          [] pc = "projection" ->
            LET a == [year1_salary |-> loc.year1_earnings, growth_rate |-> DEFAULT_GROWTH_RATE]
            IN  (CHOOSE picked \in
                    {Called("roi", [loc EXCEPT !.year1 = r[1], !.year3 = r[2], !.year5 = r[3]],
                        loc, "earnings_projection", a, Returns(r)) :
                     r \in {calculate_earnings_projection(a.year1_salary, a.growth_rate)}} : TRUE)
          [] pc = "roi" ->
            LET a == [total_cost |-> Mul(loc.total_annual_cost, R(4)),
                      year5_earnings |-> loc.year5,
                      baseline_earnings |-> DEFAULT_BASELINE_EARNINGS]
            IN  (CHOOSE picked \in
                    {Called("monthly_payment", [loc EXCEPT !.roi = r], loc, "roi", a, Returns(r)) :
                    r \in {calculate_roi(a.total_cost, a.year5_earnings, a.baseline_earnings)}} : TRUE)
          [] pc = "monthly_payment" ->
            LET a == [principal |-> loc.cumulative_debt,
                      annual_rate |-> shared_params.loan_apr, years |-> 10]
            IN  (CHOOSE picked \in
                    {Called("monthly_income", [loc EXCEPT !.monthly_payment = r.val], loc,
                        "loan_payment", a, r) :
                     r \in {calculate_loan_payment(a.principal, a.annual_rate, a.years)}} : TRUE)
          [] pc = "monthly_income" ->
            LET a == [annual_salary |-> loc.year1, tax_rate |-> shared_params.tax_rate]
            IN  (CHOOSE picked \in
                    {Called("dti", [loc EXCEPT !.monthly_income = r], loc,
                        "monthly_budget", a, Returns(r)) :
                     r \in {calculate_monthly_budget(a.annual_salary, a.tax_rate)}} : TRUE)
          [] pc = "dti" ->
            LET a == [monthly_debt_payment |-> loc.monthly_payment,
                      monthly_income |-> loc.monthly_income]
            IN  (CHOOSE picked \in
                    {Called("payback", [loc EXCEPT !.dti = r], loc, "dti_ratio", a, Returns(r)) :
                    r \in {calculate_dti_ratio(a.monthly_debt_payment, a.monthly_income)}} : TRUE)
          [] pc = "payback" ->
            LET a == [total_debt |-> loc.cumulative_debt, annual_salary |-> loc.year1,
                      payment_rate |-> DEFAULT_PAYMENT_RATE]
            IN  (CHOOSE picked \in
                    {Called("grad_rate", [loc EXCEPT !.payback = r], loc,
                        "payback_period", a, Returns(r)) :
                     r \in {calculate_payback_period(a.total_debt, a.annual_salary,
                         a.payment_rate)}} : TRUE)
          [] pc = "grad_rate" ->
            Goto("comfort", [loc EXCEPT !.grad_rate =
                PyOr(DictGet(inst_details, "graduation_rate", DEFAULT_GRADUATION_RATE),
                     DEFAULT_GRADUATION_RATE)])
          [] pc = "comfort" ->
            LET a == [dti |-> loc.dti, graduation_rate |-> loc.grad_rate, roi |-> loc.roi]
            IN  (CHOOSE picked \in
                    {Called("return", [loc EXCEPT !.comfort = r], loc, "comfort_index", a,
                        Returns(r)) :
                     r \in {calculate_comfort_index(a.dti, a.graduation_rate, a.roi)}} : TRUE)
          [] pc = "return" ->
            Goto("done", [loc EXCEPT !.metrics =
                [institution_name |-> inst_details.institution_name,
                 program_name |-> prog_details.program_name,
                 state |-> inst_details.state,
                 total_annual_cost |-> loc.total_annual_cost,
                 cumulative_debt |-> loc.cumulative_debt,
                 year1 |-> loc.year1, year3 |-> loc.year3, year5 |-> loc.year5,
                 roi |-> loc.roi, payback |-> loc.payback, dti |-> loc.dti,
                 grad_rate |-> loc.grad_rate, comfort |-> loc.comfort,
                 tuition |-> loc.tuition,
                 housing |-> Mul(loc.annual_housing,
                                 Sub(R(1), PyMin(Mul(R(shared_params.roommate_count),
                                                     ROOMMATE_REDUCTION_RATE),
                                                 MAX_ROOMMATE_DISCOUNT))),
                 food |-> loc.annual_food, transport |-> loc.annual_transport,
                 books |-> loc.annual_books, misc |-> loc.annual_misc]])

\* The body of calculate_program_metrics from the statement pc to its end.
RECURSIVE compare_run(_, _, _)
compare_run(pc, inp, loc) ==
    IF pc \in {"done", "raised"} THEN [pc |-> pc, loc |-> loc]
    ELSE CHOOSE picked \in
            {compare_run(s.pc, inp, s.loc) : s \in {compare_step(pc, inp, loc)}} : TRUE

\* compare.py, calculate_program_metrics: the dict it returns, or UNSET
\* when it raises.
calculate_program_metrics(inst_details, prog_details, data_loader, shared_params) ==
    compare_run("tuition",
                [inst_details |-> inst_details, prog_details |-> prog_details,
                 data_loader |-> data_loader, shared_params |-> shared_params],
                NoLocals).loc.metrics

\* Mutant: a planner that takes the return on one year's cost (the "* 4"
\* left out) and is the compare page's computation otherwise.
planner_step_one_year_cost(pc, inp, loc) ==
    CASE pc = "base_housing" -> Goto("guard", compare_step(pc, inp, loc).loc)
      [] pc = "guard" ->
            IF inp.inst_details # NoRecord /\ inp.prog_details # NoRecord
            THEN Goto("tuition", loc)
            ELSE Goto("skipped", loc)
      [] pc = "tuition" -> Goto("costs", compare_step(pc, inp, loc).loc)
      [] pc = "roi" ->
            LET a == [total_cost |-> loc.total_annual_cost,
                      year5_earnings |-> loc.year5,
                      baseline_earnings |-> DEFAULT_BASELINE_EARNINGS]
            IN  CHOOSE picked \in
                    {Called("monthly_payment", [loc EXCEPT !.roi = r], loc, "roi", a,
                            Returns(r)) :
                     r \in {calculate_roi(a.total_cost, a.year5_earnings,
                                          a.baseline_earnings)}} : TRUE
      [] pc = "comfort" ->
            CHOOSE picked \in
                {[s EXCEPT !.pc = "done"] : s \in {compare_step(pc, inp, loc)}} : TRUE
      [] OTHER -> compare_step(pc, inp, loc)

\* Mutant: a planner that takes the return on the money borrowed instead
\* of the four years' cost, and is the compare page's computation otherwise.
planner_step_roi_on_debt(pc, inp, loc) ==
    CASE pc = "base_housing" -> Goto("guard", compare_step(pc, inp, loc).loc)
      [] pc = "guard" ->
            IF inp.inst_details # NoRecord /\ inp.prog_details # NoRecord
            THEN Goto("tuition", loc)
            ELSE Goto("skipped", loc)
      [] pc = "tuition" -> Goto("costs", compare_step(pc, inp, loc).loc)
      [] pc = "roi" ->
            LET a == [total_cost |-> loc.cumulative_debt,
                      year5_earnings |-> loc.year5,
                      baseline_earnings |-> DEFAULT_BASELINE_EARNINGS]
            IN  CHOOSE picked \in
                    {Called("monthly_payment", [loc EXCEPT !.roi = r], loc, "roi", a,
                            Returns(r)) :
                     r \in {calculate_roi(a.total_cost, a.year5_earnings,
                                          a.baseline_earnings)}} : TRUE
      [] pc = "comfort" ->
            CHOOSE picked \in
                {[s EXCEPT !.pc = "done"] : s \in {compare_step(pc, inp, loc)}} : TRUE
      [] OTHER -> compare_step(pc, inp, loc)

\* planner.py, show_planner_page: one statement of the sidebar's housing
\* lookup (lines 125-127) and of the main area's computation (205-277).
\* The sidebar's widgets are the fields of shared_params.
planner_step(pc, inp, loc) ==
    LET inst_details == inp.inst_details
        prog_details == inp.prog_details
        data_loader == inp.data_loader
        sidebar == inp.shared_params
    IN  CASE pc = "base_housing" ->
            LET looked_up == data_loader.get_state_housing_cost
            IN  Goto("guard", [loc EXCEPT !.base_housing =
                    IF sidebar.housing_type = "Living at Home"
                    THEN Mul(looked_up, HOUSING_MULTIPLIERS.at_home)
                    ELSE looked_up])
          [] pc = "guard" ->
            IF inst_details # NoRecord /\ prog_details # NoRecord THEN Goto("tuition", loc)
            ELSE Goto("skipped", loc)
          [] pc = "tuition" ->
            Goto("costs", [loc EXCEPT !.tuition =
                IF inst_details.control_type = 1
                THEN PyOr(DictGet(inst_details, "tuition_in_state", R(10000)), R(10000))
                ELSE PyOr(DictGet(inst_details, "tuition_out_state", R(30000)), R(30000))])
          [] pc = "costs" ->
            Goto("total_annual_cost",
                 [loc EXCEPT !.annual_housing = loc.base_housing,
                             !.annual_food = Mul(sidebar.food_monthly, R(12)),
                             !.annual_transport = Mul(sidebar.transport_monthly, R(12)),
                             !.annual_books = DEFAULT_BOOKS_YEARLY,
                             !.annual_misc = DEFAULT_MISC_YEARLY])
          [] pc = "total_annual_cost" ->
            LET a == [tuition |-> loc.tuition, housing |-> loc.annual_housing,
                      food |-> loc.annual_food, transport |-> loc.annual_transport,
                      books |-> loc.annual_books, misc |-> loc.annual_misc,
                      roommate_count |-> sidebar.roommate_count]
            IN  (CHOOSE picked \in
                    {Called("cumulative_debt", [loc EXCEPT !.total_annual_cost = r], loc,
                        "total_cost", a, Returns(r)) :
                     r \in {calculate_total_cost_of_attendance(a.tuition, a.housing, a.food,
                        a.transport, a.books, a.misc, a.roommate_count)}} : TRUE)
          [] pc = "cumulative_debt" ->
            LET a == [yearly_cost |-> loc.total_annual_cost, grants |-> sidebar.grants,
                      scholarships |-> sidebar.scholarships,
                      work_study |-> sidebar.work_study,
                      family_contribution |-> sidebar.family_contribution,
                      years |-> 4]
            IN  (CHOOSE picked \in
                    {Called("year1_earnings", [loc EXCEPT !.cumulative_debt = r], loc,
                        "cumulative_debt", a, Returns(r)) :
                     r \in {calculate_cumulative_debt(a.yearly_cost, a.grants, a.scholarships,
                        a.work_study, a.family_contribution, a.years)}} : TRUE)
          [] pc = "year1_earnings" ->
            LET got == DictGet(prog_details, "median_earnings_1yr", NONE)
            IN  Goto("projection", [loc EXCEPT !.year1_earnings =
                    IF IsNa(got) \/ got = NONE THEN data_loader.get_state_earnings
                    ELSE got])
          [] pc = "projection" ->
            LET a == [year1_salary |-> loc.year1_earnings, growth_rate |-> DEFAULT_GROWTH_RATE]
            IN  (CHOOSE picked \in
                    {Called("roi", [loc EXCEPT !.year1 = r[1], !.year3 = r[2], !.year5 = r[3]],
                        loc, "earnings_projection", a, Returns(r)) :
                     r \in {calculate_earnings_projection(a.year1_salary, a.growth_rate)}} : TRUE)
          [] pc = "roi" ->
            LET a == [total_cost |-> Mul(loc.total_annual_cost, R(4)),
                      year5_earnings |-> loc.year5,
                      baseline_earnings |-> DEFAULT_BASELINE_EARNINGS]
            IN  (CHOOSE picked \in
                    {Called("monthly_payment", [loc EXCEPT !.roi = r], loc, "roi", a, Returns(r)) :
                    r \in {calculate_roi(a.total_cost, a.year5_earnings, a.baseline_earnings)}} : TRUE)
          [] pc = "monthly_payment" ->
            LET a == [principal |-> loc.cumulative_debt, annual_rate |-> sidebar.loan_apr,
                      years |-> 10]
            IN  (CHOOSE picked \in
                    {Called("monthly_income", [loc EXCEPT !.monthly_payment = r.val], loc,
                        "loan_payment", a, r) :
                     r \in {calculate_loan_payment(a.principal, a.annual_rate, a.years)}} : TRUE)
          [] pc = "monthly_income" ->
            LET a == [annual_salary |-> loc.year1, tax_rate |-> sidebar.tax_rate]
            IN  (CHOOSE picked \in
                    {Called("dti", [loc EXCEPT !.monthly_income = r], loc,
                        "monthly_budget", a, Returns(r)) :
                     r \in {calculate_monthly_budget(a.annual_salary, a.tax_rate)}} : TRUE)
          [] pc = "dti" ->
            LET a == [monthly_debt_payment |-> loc.monthly_payment,
                      monthly_income |-> loc.monthly_income]
            IN  (CHOOSE picked \in
                    {Called("payback", [loc EXCEPT !.dti = r], loc, "dti_ratio", a, Returns(r)) :
                    r \in {calculate_dti_ratio(a.monthly_debt_payment, a.monthly_income)}} : TRUE)
          [] pc = "payback" ->
            LET a == [total_debt |-> loc.cumulative_debt, annual_salary |-> loc.year1,
                      payment_rate |-> DEFAULT_PAYMENT_RATE]
            IN  (CHOOSE picked \in
                    {Called("grad_rate", [loc EXCEPT !.payback = r], loc,
                        "payback_period", a, Returns(r)) :
                     r \in {calculate_payback_period(a.total_debt, a.annual_salary,
                         a.payment_rate)}} : TRUE)
          [] pc = "grad_rate" ->
            Goto("comfort", [loc EXCEPT !.grad_rate =
                PyOr(DictGet(inst_details, "graduation_rate", DEFAULT_GRADUATION_RATE),
                     DEFAULT_GRADUATION_RATE)])
          [] pc = "comfort" ->
            LET a == [dti |-> loc.dti, graduation_rate |-> loc.grad_rate, roi |-> loc.roi]
            IN  (CHOOSE picked \in
                    {Called("done", [loc EXCEPT !.comfort = r], loc, "comfort_index", a,
                        Returns(r)) :
                     r \in {calculate_comfort_index(a.dti, a.graduation_rate, a.roi)}} : TRUE)

\* The planner's computation from the statement pc to its end.
RECURSIVE planner_run(_, _, _)
planner_run(pc, inp, loc) ==
    IF pc \in {"done", "raised", "skipped"} THEN [pc |-> pc, loc |-> loc]
    ELSE CHOOSE picked \in
            {planner_run(s.pc, inp, s.loc) : s \in {planner_step(pc, inp, loc)}} : TRUE

\* The records, lookup results and sidebar values the pages are given: the
\* documented scenario (tuition 10000, housing 12000 with 2 roommates, no
\* aid, earnings 50000, APR 0.055, tax 0.22) and what differs from it.
SampleInstitution ==
    [institution_name |-> "Sample University", state |-> "CA", control_type |-> 1,
     tuition_in_state |-> R(10000), tuition_out_state |-> R(25000),
     graduation_rate |-> Q(6, 10)]

InstRecords ==
    {SampleInstitution}
    \cup {[SampleInstitution EXCEPT !.tuition_in_state = t] : t \in {Zero, NONE}}
    \cup {[SampleInstitution EXCEPT !.control_type = 2, !.tuition_out_state = t] :
            t \in {R(25000), Zero, NONE}}
    \cup {[SampleInstitution EXCEPT !.graduation_rate = g] : g \in {Zero, NONE, R(1)}}

SampleProgram == [program_name |-> "Sample Program", median_earnings_1yr |-> R(50000)]

ProgRecords ==
    {SampleProgram, NoRecord}
    \cup {[SampleProgram EXCEPT !.median_earnings_1yr = e] :
            e \in {NONE, NAN, Zero, R(-1000)}}

LookupResults ==
    {[get_state_housing_cost |-> R(12000), get_state_earnings |-> R(45000)]}

SampleSidebar ==
    [housing_type |-> "On-Campus", roommate_count |-> 2,
     food_monthly |-> R(400), transport_monthly |-> R(200),
     grants |-> Zero, scholarships |-> Zero, work_study |-> Zero,
     family_contribution |-> Zero, loan_apr |-> Q(55, 1000), tax_rate |-> Q(22, 100)]

SidebarValues ==
    {SampleSidebar}
    \cup {[SampleSidebar EXCEPT !.housing_type = "Living at Home", !.roommate_count = r] :
            r \in {0, 3}}
    \cup {[SampleSidebar EXCEPT !.grants = R(5000), !.loan_apr = Q(6, 100)],
          [SampleSidebar EXCEPT !.grants = R(5000), !.family_contribution = R(30000)],
          [SampleSidebar EXCEPT !.loan_apr = Q(3, 100), !.tax_rate = Q(35, 100)],
          [SampleSidebar EXCEPT !.scholarships = R(2000), !.work_study = R(3000)]}

\* Every institution and every sidebar with the sample program, and every
\* program with the sample institution under two of the sidebars.
PageInputs ==
    {i \in [inst_details : InstRecords, prog_details : ProgRecords,
            data_loader : LookupResults, shared_params : SidebarValues] :
        \/ i.prog_details = SampleProgram
              /\ (i.inst_details = SampleInstitution \/ i.shared_params = SampleSidebar)
        \/ i.inst_details = SampleInstitution
              /\ i.shared_params \in {SampleSidebar,
                    [SampleSidebar EXCEPT !.grants = R(5000),
                                          !.family_contribution = R(30000)]}}

OpenPlanner ==
    /\ run = NoRun
    /\ \E inp \in PageInputs :
        run' = [page |-> "planner", pc |-> "base_housing", inputs |-> inp,
                locals |-> NoLocals]
    /\ UNCHANGED <<op, args, result, exc, module_state, memo, conn, cache>>

PlannerStep ==
    /\ run.page = "planner"
    /\ run.pc \notin {"done", "raised", "skipped"}
    /\ \E s \in {planner_step(run.pc, run.inputs, run.locals)} :
           /\ run' = [run EXCEPT !.pc = s.pc, !.locals = s.loc]
           /\ op' = s.call.op
           /\ args' = s.call.args
           /\ result' = s.call.result
           /\ exc' = s.call.exc
    /\ UNCHANGED <<module_state, memo, conn, cache>>

OpenCompare ==
    /\ run = NoRun
    /\ \E inp \in PageInputs :
        run' = [page |-> "compare", pc |-> "tuition", inputs |-> inp,
                locals |-> NoLocals]
    /\ UNCHANGED <<op, args, result, exc, module_state, memo, conn, cache>>

CompareStep ==
    /\ run.page = "compare"
    /\ run.pc \notin {"done", "raised"}
    /\ \E s \in {compare_step(run.pc, run.inputs, run.locals)} :
           /\ run' = [run EXCEPT !.pc = s.pc, !.locals = s.loc]
           /\ op' = s.call.op
           /\ args' = s.call.args
           /\ result' = s.call.result
           /\ exc' = s.call.exc
    /\ UNCHANGED <<module_state, memo, conn, cache>>

\* The page has rendered (or failed): the next rerun starts afresh.
ClosePage ==
    /\ run # NoRun
    /\ run.pc \in {"done", "raised", "skipped"}
    /\ run' = NoRun
    /\ op' = "none"
    /\ args' = NoArgs
    /\ result' = Zero
    /\ exc' = "none"
    /\ UNCHANGED <<module_state, memo, conn, cache>>

PipelineNext ==
    \/ OpenPlanner
    \/ PlannerStep
    \/ OpenCompare
    \/ CompareStep
    \/ ClosePage

PipelineSpec == Init /\ [][PipelineNext]_vars

(***************************************************************************)
(* compare.py, show_compare_page, lines 322-324: the metrics of Program 1  *)
(* and Program 2, here as two tasks whose statements interleave in any     *)
(* order.  Each task has its own locals; the engine's module-level names   *)
(* (module_state) are the only thing the two share.                        *)
(***************************************************************************)
\* The two programs of a comparison: one sidebar (shared_params) for both.
ProgramPairs ==
    {pair \in [first : PageInputs, second : PageInputs] :
        /\ pair.first.shared_params = pair.second.shared_params
        /\ pair.first.shared_params \in
                {SampleSidebar, [SampleSidebar EXCEPT !.grants = R(5000),
                                                      !.loan_apr = Q(6, 100)]}
        /\ pair.first.inst_details = SampleInstitution
        /\ pair.first.prog_details = SampleProgram
        /\ pair.second.inst_details \in
                {SampleInstitution,
                 [SampleInstitution EXCEPT !.control_type = 2,
                                           !.tuition_out_state = R(25000)]}
        /\ pair.second.prog_details \in {SampleProgram, NoRecord}}

\* A task at the first statement of calculate_program_metrics.
NewTask(inp) == [pc |-> "tuition", inputs |-> inp, locals |-> NoLocals]

OpenComparison ==
    /\ run = NoRun
    /\ \E pair \in ProgramPairs :
        run' = [page |-> "both", first |-> NewTask(pair.first),
                second |-> NewTask(pair.second)]
    /\ UNCHANGED <<op, args, result, exc, module_state, memo, conn, cache>>

\* Mutant: an engine that keeps its weights in the module and shifts them
\* toward the roi at every call of calculate_comfort_index.
StepProgram1_retuning ==
    /\ run.page = "both"
    /\ run.first.pc \notin {"done", "raised"}
    /\ \E s \in {compare_step(run.first.pc, run.first.inputs, run.first.locals)} :
           /\ run' = [run EXCEPT !.first.pc = s.pc, !.first.locals = s.loc]
           /\ op' = s.call.op
           /\ args' = s.call.args
           /\ result' = s.call.result
           /\ exc' = s.call.exc
           /\ module_state' =
                IF s.call.op = "comfort_index"
                THEN [module_state EXCEPT !.COMFORT_WEIGHTS =
                        [dti |-> Q(25, 100), graduation_rate |-> Q(25, 100),
                         roi |-> Q(50, 100)]]
                ELSE module_state
    /\ UNCHANGED <<memo, conn, cache>>

\* One statement of the computation for Program 1.
StepProgram1 ==
    /\ run.page = "both"
    /\ run.first.pc \notin {"done", "raised"}
    /\ \E s \in {compare_step(run.first.pc, run.first.inputs, run.first.locals)} :
           /\ run' = [run EXCEPT !.first.pc = s.pc, !.first.locals = s.loc]
           /\ op' = s.call.op
           /\ args' = s.call.args
           /\ result' = s.call.result
           /\ exc' = s.call.exc
    /\ UNCHANGED <<module_state, memo, conn, cache>>

\* One statement of the computation for Program 2.
StepProgram2 ==
    /\ run.page = "both"
    /\ run.second.pc \notin {"done", "raised"}
    /\ \E s \in {compare_step(run.second.pc, run.second.inputs, run.second.locals)} :
           /\ run' = [run EXCEPT !.second.pc = s.pc, !.second.locals = s.loc]
           /\ op' = s.call.op
           /\ args' = s.call.args
           /\ result' = s.call.result
           /\ exc' = s.call.exc
    /\ UNCHANGED <<module_state, memo, conn, cache>>

\* Both computations have ended: the page renders and the next rerun starts.
CloseComparison ==
    /\ run.page = "both"
    /\ run.first.pc \in {"done", "raised"}
    /\ run.second.pc \in {"done", "raised"}
    /\ run' = NoRun
    /\ op' = "none"
    /\ args' = NoArgs
    /\ result' = Zero
    /\ exc' = "none"
    /\ UNCHANGED <<module_state, memo, conn, cache>>

ConcurrentNext ==
    \/ OpenComparison
    \/ StepProgram1
    \/ StepProgram2
    \/ CloseComparison

ConcurrentSpec == Init /\ [][ConcurrentNext]_vars

(***************************************************************************)
(* The data loader's lookups.  A call names the session whose loader runs  *)
(* it; st.cache_data answers from the shared cache when it holds an entry  *)
(* for the arguments, and otherwise runs the body on that loader's         *)
(* database and keeps what it returned.  The body catches every exception  *)
(* of its query: a query on a table that does not exist raises.            *)
(***************************************************************************)
\* Mutant: no default when the state has no row.
get_state_housing_cost_nodefault(db, state) ==
    IF ~db.housing_costs.exists THEN R(12000)
    ELSE LET rows == {row \in db.housing_costs.rows : row.state = state}
         IN  IF rows = {} THEN NONE
             ELSE IF ~IsNa((CHOOSE row \in rows : TRUE).annual_1br)
             THEN (CHOOSE row \in rows : TRUE).annual_1br
             ELSE R(12000)

get_state_housing_cost(db, state) ==
    IF ~db.housing_costs.exists THEN R(12000)
    ELSE LET rows == {row \in db.housing_costs.rows : row.state = state}
         IN  IF rows # {} /\ ~IsNa((CHOOSE row \in rows : TRUE).annual_1br)
             THEN (CHOOSE row \in rows : TRUE).annual_1br
             ELSE R(12000)

\* Mutant: NULL earnings returned as they are.
get_state_earnings_null(db, state) ==
    IF ~db.earnings_by_state.exists THEN R(45000)
    ELSE LET rows == {row \in db.earnings_by_state.rows : row.state = state}
         IN  IF rows # {} THEN (CHOOSE row \in rows : TRUE).median_earnings
             ELSE R(45000)

get_state_earnings(db, state) ==
    IF ~db.earnings_by_state.exists THEN R(45000)
    ELSE LET rows == {row \in db.earnings_by_state.rows : row.state = state}
         IN  IF rows # {}
                /\ ~IsNa((CHOOSE row \in rows : TRUE).median_earnings)
             THEN (CHOOSE row \in rows : TRUE).median_earnings
             ELSE R(45000)

GetStateHousingCost ==
    \E s \in Sessions, state \in StateCodes :
        /\ op' = "get_state_housing_cost"
        /\ args' = [state |-> state]
        /\ exc' = "none"
        /\ \E entry \in {cache.get_state_housing_cost[state]} :
               IF entry.hit
               THEN /\ result' = entry.value
                    /\ cache' = cache
               ELSE /\ result' = get_state_housing_cost(conn[s], state)
                    /\ cache' = [cache EXCEPT
                          !.get_state_housing_cost[state] = Hit(result')]
        /\ UNCHANGED <<module_state, memo, run, conn>>

GetStateEarnings ==
    \E s \in Sessions, state \in StateCodes :
        /\ op' = "get_state_earnings"
        /\ args' = [state |-> state]
        /\ exc' = "none"
        /\ \E entry \in {cache.get_state_earnings[state]} :
               IF entry.hit
               THEN /\ result' = entry.value
                    /\ cache' = cache
               ELSE /\ result' = get_state_earnings(conn[s], state)
                    /\ cache' = [cache EXCEPT
                          !.get_state_earnings[state] = Hit(result')]
        /\ UNCHANGED <<module_state, memo, run, conn>>

\* An entry is dropped an hour after it was made (ttl=3600).
CacheExpires ==
    \E fn \in DOMAIN cache :
        \E key \in DOMAIN cache[fn] :
            /\ cache[fn][key].hit
            /\ cache' = [cache EXCEPT ![fn][key] = Miss]
            /\ UNCHANGED <<op, args, result, exc, module_state, memo, run,
                           conn>>

\* The loaders of all sessions read the same files: a table is there in
\* all of them or in none.
LookupInit ==
    /\ op = "none"
    /\ args = NoArgs
    /\ result = Zero
    /\ exc = "none"
    /\ module_state = constants_py
    /\ memo = NoCall
    /\ run = NoRun
    /\ \E housing_loaded \in BOOLEAN, earnings_loaded \in BOOLEAN :
           conn = [s \in Sessions |-> Tables(housing_loaded, earnings_loaded)]
    /\ cache = EmptyCache

LookupNext ==
    \/ GetStateHousingCost
    \/ GetStateEarnings
    \/ CacheExpires

LookupSpec == LookupInit /\ [][LookupNext]_vars

(***************************************************************************)
(* The programs of an institution.  A DataFrame is the bag of its rows.    *)
(* get_programs calls get_institution_details through the cache, and an    *)
(* INSERT goes to the database of the loader that runs the body.           *)
(***************************************************************************)
\* SELECT * FROM programs WHERE unit_id = {unit_id}
SelectPrograms(db, unit_id) ==
    [row \in {r \in DOMAIN db.programs : r.unit_id = unit_id} |->
        db.programs[row]]

get_institution_details(db, unit_id) ==
    LET rows == {r \in db.institutions : r.unit_id = unit_id}
    IN  IF rows # {} THEN CHOOSE r \in rows : TRUE ELSE NoRecord

create_fallback_programs_for_institution(db, unit_id, institution_name) ==
    LET fallback_df ==
            SetToBag(create_fallback_program_data(unit_id, institution_name))
    IN  [result |-> fallback_df,
         db |-> [db EXCEPT !.programs = @ (+) fallback_df]]

\* The body of get_programs on the database db with the cache c: what it
\* returns, and the database and the cache it leaves.
get_programs(db, c, unit_id) ==
    LET found == SelectPrograms(db, unit_id)
    IN  IF DOMAIN found # {}
        THEN [result |-> found, db |-> db, cache |-> c]
        ELSE LET entry == c.get_institution_details[unit_id]
                 inst_details ==
                     IF entry.hit THEN entry.value
                     ELSE get_institution_details(db, unit_id)
                 c2 == [c EXCEPT
                          !.get_institution_details[unit_id] = Hit(inst_details)]
             IN  IF inst_details # NoRecord
                 THEN LET made == create_fallback_programs_for_institution(
                                      db, unit_id, inst_details.name)
                      IN  [result |-> made.result, db |-> made.db, cache |-> c2]
                 ELSE [result |-> found, db |-> db, cache |-> c2]

get_program_details(db, unit_id, cip_code) ==
    LET rows == {r \in DOMAIN db.programs :
                    r.unit_id = unit_id /\ r.cip_code = cip_code}
    IN  IF rows # {} THEN CHOOSE r \in rows : TRUE ELSE NoRecord

GetPrograms ==
    \E s \in Sessions, unit_id \in UnitIds :
        /\ op' = "get_programs"
        /\ args' = [self |-> s, unit_id |-> unit_id]
        /\ exc' = "none"
        /\ \E entry \in {cache.get_programs[unit_id]} :
               IF entry.hit
               THEN /\ result' = entry.value
                    /\ UNCHANGED <<conn, cache>>
               ELSE \E out \in {get_programs(conn[s], cache, unit_id)} :
                        /\ result' = out.result
                        /\ conn' = [conn EXCEPT ![s] = out.db]
                        /\ cache' = [out.cache EXCEPT
                              !.get_programs[unit_id] = Hit(out.result)]
        /\ UNCHANGED <<module_state, memo, run>>

GetInstitutionDetails ==
    \E s \in Sessions, unit_id \in UnitIds :
        /\ op' = "get_institution_details"
        /\ args' = [self |-> s, unit_id |-> unit_id]
        /\ exc' = "none"
        /\ \E entry \in {cache.get_institution_details[unit_id]} :
               IF entry.hit
               THEN /\ result' = entry.value
                    /\ cache' = cache
               ELSE /\ result' = get_institution_details(conn[s], unit_id)
                    /\ cache' = [cache EXCEPT
                          !.get_institution_details[unit_id] = Hit(result')]
        /\ UNCHANGED <<module_state, memo, run, conn>>

GetProgramDetails ==
    \E s \in Sessions, key \in DOMAIN cache.get_program_details :
        /\ op' = "get_program_details"
        /\ args' = [self |-> s, unit_id |-> key[1], cip_code |-> key[2]]
        /\ exc' = "none"
        /\ \E entry \in {cache.get_program_details[key]} :
               IF entry.hit
               THEN /\ result' = entry.value
                    /\ cache' = cache
               ELSE /\ result' = get_program_details(conn[s], key[1], key[2])
                    /\ cache' = [cache EXCEPT
                          !.get_program_details[key] = Hit(result')]
        /\ UNCHANGED <<module_state, memo, run, conn>>

ProgramsNext ==
    \/ GetPrograms
    \/ GetInstitutionDetails
    \/ GetProgramDetails
    \/ CacheExpires

ProgramsSpec == Init /\ [][ProgramsNext]_vars

(***************************************************************************)
(* The claims.  The expected values are written with integer arithmetic on *)
(* the arguments (all of them whole numbers or simple fractions), not with *)
(* the operators of the engine.                                            *)
(***************************************************************************)
Max0(n) == IF n < 0 THEN 0 ELSE n

\* Percent of the housing cost taken off, as the specification tabulates it.
DiscountPercent(roommate_count) ==
    CASE roommate_count = 0 -> 0
      [] roommate_count = 1 -> 25
      [] roommate_count = 2 -> 50
      [] OTHER -> 75

\* C1: calculate_comfort_index returns a value in the closed range [0, 100]
\* for every dti, graduation_rate and roi, also for a negative dti, a
\* graduation_rate outside [0, 1] and an roi far outside [-100, 100].
C1_ComfortIndexInRange ==
    op = "comfort_index" => Le(Zero, result) /\ Le(result, R(100))

\* The final clamp has acted: the weighted sum of these arguments is
\* 0.4 * 200 + 0.3 * 200 + 0.3 * 100 = 170.
C1_Witness ==
    /\ op = "comfort_index"
    /\ args.dti = R(-50) /\ args.graduation_rate = R(2) /\ args.roi = R(500)
    /\ result = R(100)

\* C2: every operation of the engine returns a number and never raises,
\* for every combination of zero, negative and positive arguments
\* (term_years = 0 included).
C2_EngineNeverRaises == exc = "none"

\* C3: the total cost is tuition + housing * (1 - discount) + food +
\* transport + books + misc, floored at 0, where the discount for 0, 1, 2,
\* 3, 4 and 100 roommates is 0, 25, 50, 75, 75 and 75 percent; any count of
\* 3 or more gives the result of 3.
C3_RoommateDiscount ==
    op = "total_cost" =>
        LET a == args
            others == a.tuition[1] + a.food[1] + a.transport[1] + a.books[1] + a.misc[1]
        IN  /\ a.roommate_count \in {0, 1, 2, 3, 4, 100} =>
                result = Q(Max0(100 * others
                                + a.housing[1] * (100 - DiscountPercent(a.roommate_count))),
                           100)
            /\ a.roommate_count >= 3 =>
                result = calculate_total_cost_of_attendance(a.tuition, a.housing, a.food,
                            a.transport, a.books, a.misc, 3)

\* 100 roommates: a quarter of the housing cost is still charged.
C3_Witness ==
    /\ op = "total_cost"
    /\ args.roommate_count = 100
    /\ args.tuition = R(10000) /\ args.housing = R(12000) /\ args.food = R(4800)
    /\ args.transport = R(2400) /\ args.books = R(1200) /\ args.misc = R(2000)
    /\ result = R(23400)

\* C4: the total cost is never negative, whatever the arguments (negative
\* housing and negative other components are accepted), and is 0 when all
\* the arguments are 0.
C4_TotalCostNonNegative ==
    op = "total_cost" =>
        /\ Le(Zero, result)
        /\ (/\ args.tuition = Zero /\ args.housing = Zero /\ args.food = Zero
            /\ args.transport = Zero /\ args.books = Zero /\ args.misc = Zero
            /\ args.roommate_count = 0) => result = Zero

\* A negative sum (-20000 - 12000 - 1200) comes back as 0.
C4_Witness ==
    /\ op = "total_cost"
    /\ args.tuition = R(-20000) /\ args.housing = R(-12000) /\ args.books = R(-1200)
    /\ args.food = Zero /\ args.transport = Zero /\ args.misc = Zero
    /\ args.roommate_count = 0
    /\ result = Zero

\* C5: the cumulative debt is max(0, yearly_cost - total aid) * years; it is
\* 0 for every years when the aid is at least the yearly cost, and 60000
\* for a yearly cost of 20000, aid of 5000 and 4 years.
C5_CumulativeDebt ==
    op = "cumulative_debt" =>
        LET a == args
            aid == a.grants[1] + a.scholarships[1] + a.work_study[1]
                   + a.family_contribution[1]
        IN  /\ result = R(Max0(a.yearly_cost[1] - aid) * a.years)
            /\ aid >= a.yearly_cost[1] => result = Zero
            /\ (a.yearly_cost = R(20000) /\ aid = 5000 /\ a.years = 4) => result = R(60000)

C5_Witness ==
    /\ op = "cumulative_debt"
    /\ args.yearly_cost = R(20000) /\ args.grants = R(5000) /\ args.scholarships = Zero
    /\ args.work_study = Zero /\ args.family_contribution = Zero /\ args.years = 4
    /\ result = R(60000)

\* C6: the debt returned by calculate_cumulative_debt is never negative,
\* for every yearly cost, every aid amount and every value of years.
C6_DebtNeverNegative ==
    op = "cumulative_debt" => Le(Zero, result)

\* The growth factor (1 + r) ** n of the amortization formula for a yearly
\* rate p/q (in lowest terms, p > 0) and n # 0 monthly payments.
GrowthFactor(rate, n) ==
    LET m == Norm(rate[1], 12 * rate[2])
    IN  IF n > 0 THEN Pow(<<m[2] + m[1], m[2]>>, n)
        ELSE Pow(<<m[2], m[2] + m[1]>>, -n)

\* C7: calculate_loan_payment returns 0 when principal <= 0; for
\* principal > 0, annual_rate <= 0 and term_years >= 1 it returns
\* principal / (term_years * 12) (100 for 12000 at rate 0 over 10 years);
\* for principal > 0 and annual_rate > 0 it returns
\* P * r * (1 + r)^n / ((1 + r)^n - 1) with r = annual_rate / 12 and
\* n = term_years * 12, wherever that expression has a value (n # 0).
C7_LoanPayment ==
    op = "loan_payment" =>
        LET a == args
            n == a.years * 12
            r == Norm(a.annual_rate[1], 12 * a.annual_rate[2])
            g == GrowthFactor(a.annual_rate, n)
        IN  /\ a.principal[1] <= 0 => exc = "none" /\ result = Zero
            /\ (a.principal[1] > 0 /\ a.annual_rate[1] <= 0 /\ a.years >= 1) =>
                exc = "none" /\ result = Q(a.principal[1], n)
            /\ (a.principal = R(12000) /\ a.annual_rate = Zero /\ a.years = 10) =>
                result = R(100)
            /\ (a.principal[1] > 0 /\ a.annual_rate[1] > 0 /\ n # 0) =>
                /\ exc = "none"
                /\ Eq(Mul(result, Sub(g, R(1))), Mul(Mul(a.principal, r), g))

\* An amortized payment: 100 at 1200% a year (r = 1) over 12 months is
\* 100 * 4096 / 4095.
C7_Witness ==
    /\ op = "loan_payment"
    /\ args.principal = R(100) /\ args.annual_rate = R(12) /\ args.years = 1
    /\ exc = "none"
    /\ result = Q(409600, 4095)

\* C8: calculate_payback_period returns 0 when total_debt <= 0; otherwise
\* +infinity when annual_salary <= 0 or annual_salary * payment_rate <= 0;
\* otherwise min(total_debt / (annual_salary * payment_rate), 50).  Debt
\* 50000 with salary 0 gives +infinity, debt 0 with salary 50000 gives 0,
\* debt 500000 with salary 50000 at rate 0.10 gives 50.
C8_PaybackPeriod ==
    op = "payback_period" =>
        LET a == args
            debt == a.total_debt[1]
            salary == a.annual_salary[1]
            \* annual_salary * payment_rate = pay_n / pay_d, pay_d > 0
            pay_n == salary * a.payment_rate[1]
            pay_d == a.payment_rate[2]
        IN  /\ debt <= 0 => result = Zero
            /\ (debt > 0 /\ (salary <= 0 \/ pay_n <= 0)) => result = INF
            /\ (debt > 0 /\ salary > 0 /\ pay_n > 0) =>
                result = IF debt * pay_d > 50 * pay_n THEN R(50)
                         ELSE Q(debt * pay_d, pay_n)
            /\ (a.total_debt = R(50000) /\ a.annual_salary = Zero) => result = INF
            /\ (a.total_debt = Zero /\ a.annual_salary = R(50000)) => result = Zero
            /\ (a.total_debt = R(500000) /\ a.annual_salary = R(50000)
                /\ a.payment_rate = Q(1, 10)) => result = R(50)

\* The cap has acted: 500000 / (50000 * 0.10) is 100.
C8_Witness ==
    /\ op = "payback_period"
    /\ args.total_debt = R(500000) /\ args.annual_salary = R(50000)
    /\ args.payment_rate = Q(1, 10)
    /\ result = R(50)

\* C9, as claimed: whenever annual_salary is non-positive,
\* calculate_payback_period returns the infinite sentinel, for every
\* total_debt and every payment_rate.
C9_InfiniteForAnyDebt ==
    (op = "payback_period" /\ args.annual_salary[1] <= 0) => result = INF

\* C9, amended: whenever annual_salary is non-positive and total_debt is
\* positive, calculate_payback_period returns the infinite sentinel, for
\* every payment_rate.
C9_InfiniteForPositiveDebt ==
    (op = "payback_period" /\ args.annual_salary[1] <= 0 /\ args.total_debt[1] > 0) =>
        result = INF

\* A negative salary at a negative rate: the payment would be positive, and
\* the result is infinite all the same.
C9_Witness ==
    /\ op = "payback_period"
    /\ args.total_debt = R(50000) /\ args.annual_salary = R(-50000)
    /\ args.payment_rate = Q(-1, 10)
    /\ result = INF

\* C10: calculate_dti_ratio returns 0 when monthly_income <= 0, and
\* otherwise (monthly_debt_payment / monthly_income) * 100 capped at 100:
\* payment 0 with income 1000 gives 0, payment 2000 with income 1000 gives
\* 100.
C10_DtiRatio ==
    op = "dti_ratio" =>
        LET payment == args.monthly_debt_payment[1]
            income == args.monthly_income[1]
        IN  /\ income <= 0 => result = Zero
            /\ income > 0 =>
                result = IF payment > income THEN R(100) ELSE Q(100 * payment, income)
            /\ (payment = 0 /\ income = 1000) => result = Zero
            /\ (payment = 2000 /\ income = 1000) => result = R(100)

\* The cap has acted: the raw ratio is 200.
C10_Witness ==
    /\ op = "dti_ratio"
    /\ args.monthly_debt_payment = R(2000) /\ args.monthly_income = R(1000)
    /\ result = R(100)

ClampInt(n, lo, hi) == IF n < lo THEN lo ELSE IF n > hi THEN hi ELSE n

\* C11: calculate_comfort_index is
\* clamp(0.40 * max(0, 100 - 2 * dti) + 0.30 * (graduation_rate * 100)
\*       + 0.30 * clamp((roi + 100) / 2, 0, 100), 0, 100);
\* the weights sum to 1, every dti of 50 or more gives the result of dti 50
\* (a debt sub-score of 0), the arguments (0, 1.0, 100) give 100 and
\* (100, 0, -100) give 0.
C11_ComfortIndexFormula ==
    /\ Add(Add(COMFORT_WEIGHTS.dti, COMFORT_WEIGHTS.graduation_rate), COMFORT_WEIGHTS.roi)
            = R(1)
    /\ op = "comfort_index" =>
        LET dn == args.dti[1]
            dd == args.dti[2]
            gn == args.graduation_rate[1]
            gd == args.graduation_rate[2]
            rn == args.roi[1]
            rd == args.roi[2]
            \* the weighted sum is sum / den, den > 0
            den == 200 * dd * gd * rd
            sum == 80 * Max0(100 * dd - 2 * dn) * gd * rd
                   + 6000 * gn * dd * rd
                   + 30 * ClampInt(rn + 100 * rd, 0, 200 * rd) * dd * gd
        IN  /\ result = Q(ClampInt(sum, 0, 100 * den), den)
            /\ dn >= 50 * dd =>
                result = calculate_comfort_index(R(50), args.graduation_rate, args.roi)
            /\ (args.dti = Zero /\ args.graduation_rate = R(1) /\ args.roi = R(100)) =>
                result = R(100)
            /\ (args.dti = R(100) /\ args.graduation_rate = Zero /\ args.roi = R(-100)) =>
                result = Zero

\* A debt ratio of 25 with half the students graduating and an roi of 50:
\* 0.4 * 50 + 0.3 * 50 + 0.3 * 75 = 57.5.
C11_Witness ==
    /\ op = "comfort_index"
    /\ args.dti = R(25) /\ args.graduation_rate = Q(1, 2) /\ args.roi = R(50)
    /\ result = Q(115, 2)

\* C12: for total_cost > 0 calculate_roi returns
\* ((year5 / 1.126 + year5) / 2 * 5 - baseline * 5 - total_cost) / total_cost * 100
\* with the literal 1.126, a function of its three arguments alone.  With
\* 1/1.126 = 1000/1126 the bracket is (10630 * year5) / 2252.
C12_RoiFormula ==
    (op = "roi" /\ Lt(Zero, args.total_cost)) =>
        LET five_year_earnings == Mul(Q(10630, 2252), args.year5_earnings)
            spent == Add(Mul(R(5), args.baseline_earnings), args.total_cost)
        IN  /\ exc = "none"
            /\ Eq(Mul(result, args.total_cost),
                  Mul(R(100), Sub(five_year_earnings, spent)))

\* 56300 / 1.126 = 50000: five years earn 265750 against 175000 + 105600.
C12_Witness ==
    /\ op = "roi"
    /\ args.total_cost = R(105600) /\ args.year5_earnings = R(56300)
    /\ args.baseline_earnings = R(35000)
    /\ result = Q(-225, 16)

\* C13: calculate_roi returns exactly 0 whenever total_cost <= 0, whatever
\* the earnings and the baseline, and divides by nothing on that path.
C13_RoiZeroWithoutCost ==
    (op = "roi" /\ args.total_cost[1] <= 0) => exc = "none" /\ result = Zero

\* A negative total cost with earnings above the baseline.
C13_Witness ==
    /\ op = "roi"
    /\ args.total_cost = R(-100) /\ args.year5_earnings = R(56300)
    /\ args.baseline_earnings = Zero
    /\ result = Zero

\* C14: calculate_earnings_projection returns year1 = the salary given,
\* year3 = salary * (1 + g)^2 and year5 = salary * (1 + g)^4; for 50000 at
\* 0.03 year3 is within 1 of 53045 and year5 within 1 of 56275.
C14_EarningsProjection ==
    op = "earnings_projection" =>
        LET salary == args.year1_salary
            gn == args.growth_rate[1]
            gd == args.growth_rate[2]
        IN  /\ result[1] = salary
            /\ result[2] = Mul(salary, Q((gd + gn) ^ 2, gd ^ 2))
            /\ result[3] = Mul(salary, Q((gd + gn) ^ 4, gd ^ 4))
            /\ (salary = R(50000) /\ args.growth_rate = Q(3, 100)) =>
                /\ Le(R(53044), result[2]) /\ Le(result[2], R(53046))
                /\ Le(R(56274), result[3]) /\ Le(result[3], R(56276))

\* 50000 * 1.03^2 = 53045 and 50000 * 1.03^4 = 56275.4405.
C14_Witness ==
    /\ op = "earnings_projection"
    /\ args.year1_salary = R(50000) /\ args.growth_rate = Q(3, 100)
    /\ result = <<R(50000), R(53045), Q(112550881, 2000)>>

\* C17: calculate_net_price returns max(0, sticker_price - grants -
\* scholarships): the difference when the aid is below the sticker price,
\* and 0 when the aid reaches or exceeds it.
C17_NetPrice ==
    op = "net_price" =>
        LET aid == args.grants[1] + args.scholarships[1]
        IN  /\ result = R(Max0(args.sticker_price[1] - aid))
            /\ aid >= args.sticker_price[1] => result = Zero
            /\ aid < args.sticker_price[1] => result = R(args.sticker_price[1] - aid)

\* The floor has acted: 10000 - 20000 - 5000 is negative.
C17_Witness ==
    /\ op = "net_price"
    /\ args.sticker_price = R(10000) /\ args.grants = R(20000)
    /\ args.scholarships = R(5000)
    /\ result = Zero

\* C15: calculate_loan_payment(30000, 0.055, 10), the documented sample of
\* the amortization formula, returns a monthly payment within 0.5 of 326.04.
C15_LoanPaymentSample ==
    (/\ op = "loan_payment"
     /\ args.principal = R(30000) /\ args.annual_rate = Q(55, 1000) /\ args.years = 10) =>
        /\ exc = "none"
        /\ Le(Sub(Q(32604, 100), Q(1, 2)), result)
        /\ Le(result, Add(Q(32604, 100), Q(1, 2)))

\* The payment of the sample is 325.58 to the cent.
C15_Witness ==
    /\ op = "loan_payment"
    /\ args.principal = R(30000) /\ args.annual_rate = Q(55, 1000) /\ args.years = 10
    /\ exc = "none"
    /\ Le(Q(32557, 100), result) /\ Lt(result, Q(32559, 100))

\* C16: the end-to-end scenario.  Tuition 10000, housing 12000 with 2
\* roommates, food 4800, transport 2400, books 1200 and misc 2000 cost
\* 26400 a year; that cost with no aid over 4 years is a debt of 105600; a
\* salary of 50000 growing by 0.03 reaches about 56275 in year 5; and
\* calculate_roi(105600, that year 5, 35000) is within 0.1 of
\* ((y5 / 1.126 + y5) / 2 * 5 - 35000 * 5 - 105600) / 105600 * 100.
C16_Year5 == Q(112550881, 2000)

C16_DocumentedRoi ==
    LET five_year_earnings == Mul(Q(10630, 2252), C16_Year5)
    IN  Div(Mul(R(100), Sub(five_year_earnings, R(5 * 35000 + 105600))), R(105600))

C16_EndToEnd ==
    /\ (/\ op = "total_cost"
        /\ args.tuition = R(10000) /\ args.housing = R(12000) /\ args.roommate_count = 2
        /\ args.food = R(4800) /\ args.transport = R(2400) /\ args.books = R(1200)
        /\ args.misc = R(2000)) => result = R(26400)
    /\ (/\ op = "cumulative_debt"
        /\ args.yearly_cost = R(26400) /\ args.grants = Zero /\ args.scholarships = Zero
        /\ args.work_study = Zero /\ args.family_contribution = Zero
        /\ args.years = 4) => result = R(105600)
    /\ (/\ op = "earnings_projection"
        /\ args.year1_salary = R(50000) /\ args.growth_rate = Q(3, 100)) =>
            /\ result[3] = C16_Year5
            /\ Le(R(56275), result[3]) /\ Le(result[3], R(56276))
    /\ (/\ op = "roi"
        /\ args.total_cost = R(105600) /\ args.year5_earnings = C16_Year5
        /\ args.baseline_earnings = R(35000)) =>
            /\ Le(Sub(C16_DocumentedRoi, Q(1, 10)), result)
            /\ Le(result, Add(C16_DocumentedRoi, Q(1, 10)))

\* The last step of the scenario: the return on 105600 is -14.17 percent.
C16_Witness ==
    /\ op = "roi"
    /\ args.total_cost = R(105600) /\ args.year5_earnings = C16_Year5
    /\ args.baseline_earnings = R(35000)
    /\ Lt(Q(-1418, 100), result) /\ Lt(result, Q(-1417, 100))

\* C18: the engine is deterministic and stateless.  A call noted by the
\* observer and made again with the same arguments, with other engine calls
\* in between or not, returns the same result (or raises the same
\* exception); and no operation writes the module-level names
\* ROOMMATE_REDUCTION_RATE, MAX_ROOMMATE_DISCOUNT and COMFORT_WEIGHTS: they
\* keep the values of constants.py.
C18_DeterministicStateless ==
    /\ module_state = constants_py
    /\ (memo # NoCall /\ op = memo.op /\ args = memo.args) =>
            result = memo.result /\ exc = memo.exc

\* The noted comfort index call made a second time after another call.
C18_Witness ==
    /\ memo # NoCall
    /\ memo.op = "comfort_index" /\ memo.between /\ memo.again
    /\ op = memo.op /\ args = memo.args
    /\ result = Q(115, 2)


\* The values a run of a page has assigned so far.
Assigned(names) == \A f \in names : run.locals[f] # UNSET

C19_PlannerWitness ==
    /\ run.page = "planner"
    /\ op = "comfort_index"
    /\ run.locals.cumulative_debt = R(105600)
    /\ Lt(R(35), args.dti) /\ Lt(args.dti, R(36))


\* The metrics both pages show.
C20_Metrics ==
    {"total_annual_cost", "cumulative_debt", "year1", "year3", "year5", "roi",
     "payback", "dti", "grad_rate", "comfort"}

\* C20: the planner page and the compare page compute the same metrics.
\* For the institution record, program record, lookup results and
\* parameters of a finished planner run, calculate_program_metrics returns
\* the planner's total annual cost, cumulative debt, year 1, 3 and 5
\* earnings, roi, payback, dti, graduation rate and comfort index; and for
\* those of a finished call of calculate_program_metrics, the planner's
\* computation ends with the values of the returned dict.
C20_SameMetrics ==
    /\ (run.page = "planner" /\ run.pc = "done") =>
            LET c == compare_run("tuition", run.inputs, NoLocals)
                metrics == calculate_program_metrics(run.inputs.inst_details,
                                run.inputs.prog_details, run.inputs.data_loader,
                                run.inputs.shared_params)
            IN  /\ c.pc = "done"
                /\ \A f \in C20_Metrics : metrics[f] = run.locals[f]
    /\ (run.page = "compare" /\ run.pc = "done") =>
            LET p == planner_run("base_housing", run.inputs, NoLocals)
            IN  /\ p.pc = "done"
                /\ \A f \in C20_Metrics : p.loc[f] = run.locals.metrics[f]

\* The planner has finished the documented scenario: 26400 a year, a debt
\* of 105600 and a comfort index between 42 and 43.
C20_Witness ==
    /\ run.page = "planner" /\ run.pc = "done"
    /\ run.locals.total_annual_cost = R(26400)
    /\ run.locals.cumulative_debt = R(105600)
    /\ Lt(R(42), run.locals.comfort) /\ Lt(run.locals.comfort, R(43))

\* The compare page has returned the metrics of the same scenario.
C20_CompareWitness ==
    /\ run.page = "compare" /\ run.pc = "done"
    /\ run.locals.metrics.total_annual_cost = R(26400)
    /\ run.locals.metrics.cumulative_debt = R(105600)
    /\ Lt(R(42), run.locals.metrics.comfort) /\ Lt(run.locals.metrics.comfort, R(43))


\* C21: the metrics of Program 1 and Program 2 computed concurrently, their
\* engine calls interleaved in any order, are for each program exactly the
\* metrics of computing it alone (the dict calculate_program_metrics
\* returns for its inputs, or its failure), and no call changes the
\* module-level names the other computation reads.
C21_IsolatedComputations ==
    run.page = "both" =>
        /\ module_state = constants_py
        /\ \A task \in {run.first, run.second} :
            task.pc \in {"done", "raised"} =>
                LET alone == compare_run("tuition", task.inputs, NoLocals)
                IN  /\ task.pc = alone.pc
                    /\ task.locals = alone.loc

\* Program 2 (a private institution) has ended while Program 1 is still
\* between its calls of calculate_roi and calculate_comfort_index.
C21_Witness ==
    /\ run.page = "both"
    /\ run.second.pc = "done"
    /\ run.second.inputs.inst_details.control_type = 2
    /\ run.second.locals.metrics.total_annual_cost = R(41400)
    /\ run.first.pc = "payback"
    /\ run.first.locals.total_annual_cost = R(26400)
    /\ op = "dti_ratio"


\* C22: when the program record has no first-year median earnings (None or
\* nan), both pages hand the state's median earnings from
\* get_state_earnings to calculate_earnings_projection, which never gets a
\* missing salary; when the record has earnings (0 included), that value
\* is handed over unchanged.
C22_EarningsFallback ==
    (run.page \in {"planner", "compare"} /\ op = "earnings_projection") =>
        LET recorded == run.inputs.prog_details.median_earnings_1yr
        IN  /\ args.year1_salary \notin {NONE, NAN, UNSET}
            /\ recorded \in {NONE, NAN} =>
                    args.year1_salary = run.inputs.data_loader.get_state_earnings
            /\ recorded \notin {NONE, NAN} => args.year1_salary = recorded

\* The compare page projects the state's median 45000 for a program whose
\* earnings are nan.
C22_Witness ==
    /\ run.page = "compare"
    /\ op = "earnings_projection"
    /\ run.inputs.prog_details.median_earnings_1yr = NAN
    /\ args.year1_salary = R(45000)
    /\ result[1] = R(45000)

\* The planner page does so for a program whose earnings are None.
C22_PlannerWitness ==
    /\ run.page = "planner"
    /\ op = "earnings_projection"
    /\ run.inputs.prog_details.median_earnings_1yr = NONE
    /\ args.year1_salary = R(45000)

\* Earnings of 0 are projected as they are.
C22_ZeroWitness ==
    /\ op = "earnings_projection"
    /\ run.page = "planner"
    /\ run.inputs.prog_details.median_earnings_1yr = Zero
    /\ args.year1_salary = Zero

\* C23: get_state_housing_cost returns the annual_1br of the state's row
\* when the table has one that is not null, and 12000 when the state has
\* no row, the value is null or the query fails; get_state_earnings does
\* the same with median_earnings and 45000.  Neither raises, and neither
\* returns a missing value.
C23_StateLookups ==
    /\ op = "get_state_housing_cost" =>
          /\ exc = "none"
          /\ \A s \in Sessions :
                LET t == conn[s].housing_costs
                    values == {row.annual_1br : row \in
                                 {r \in t.rows : r.state = args.state}}
                               \ {NONE, NAN}
                IN  IF t.exists /\ values # {}
                    THEN result \in values
                    ELSE result = <<12000, 1>>
    /\ op = "get_state_earnings" =>
          /\ exc = "none"
          /\ \A s \in Sessions :
                LET t == conn[s].earnings_by_state
                    values == {row.median_earnings : row \in
                                 {r \in t.rows : r.state = args.state}}
                               \ {NONE, NAN}
                IN  IF t.exists /\ values # {}
                    THEN result \in values
                    ELSE result = <<45000, 1>>

\* The row of the state holds NULL, and the default is returned.
C23_Witness ==
    /\ op = "get_state_housing_cost"
    /\ args.state = "TX"
    /\ conn[1].housing_costs.exists
    /\ result = <<12000, 1>>
    /\ cache.get_state_housing_cost["TX"].hit

\* The state's value is returned from the table.
C23_ValueWitness ==
    /\ op = "get_state_earnings"
    /\ args.state = "CA"
    /\ conn[1].earnings_by_state.exists
    /\ result = <<58500, 1>>

\* The query fails, and the default is returned.
C23_FailingQueryWitness ==
    /\ op = "get_state_earnings"
    /\ args.state = "CA"
    /\ ~conn[1].earnings_by_state.exists
    /\ result = <<45000, 1>>

\* The state has no row.
C23_UnknownStateWitness ==
    /\ op = "get_state_housing_cost"
    /\ args.state = "ZZ"
    /\ conn[1].housing_costs.exists
    /\ result = <<12000, 1>>

\* C24: on both pages the institution's tuition (in-state for control type
\* 1, out-of-state otherwise) and its graduation rate reach the engine
\* unchanged whenever the record has a value, 0 included; the defaults
\* 10000, 30000 and 0.5 are used only when the record has none.
C24_InstitutionValuesUnchanged ==
    run.page \in {"planner", "compare"} =>
        LET inst == run.inputs.inst_details
            recorded == IF inst.control_type = 1 THEN inst.tuition_in_state
                        ELSE inst.tuition_out_state
        IN  /\ op = "total_cost" =>
                  args.tuition = IF recorded \in {NONE, NAN}
                                 THEN IF inst.control_type = 1 THEN <<10000, 1>>
                                      ELSE <<30000, 1>>
                                 ELSE recorded
            /\ op = "comfort_index" =>
                  args.graduation_rate = IF inst.graduation_rate \in {NONE, NAN}
                                         THEN <<1, 2>>
                                         ELSE inst.graduation_rate

\* The fallback rows of the institution that has no programs of its own.
C25_FallbackRows == create_fallback_program_data(200, "Beta College")

\* No database ever holds a fallback row twice.
C25_NoSecondInsertion ==
    \A s \in Sessions : \A row \in C25_FallbackRows :
        CopiesIn(row, conn[s].programs) <= 1

\* get_programs returns the three fallback programs, once each.
C25_FallbackReturned ==
    (op = "get_programs" /\ args.unit_id = 200) =>
        result = SetToBag(C25_FallbackRows)

\* C25: for an institution that exists and has no rows in the programs
\* table, get_programs inserts the three fallback programs and returns
\* them; from then on, whatever the order of the calls and with the caches
\* in effect, get_program_details returns a record for each fallback
\* cip_code, and no fallback row is inserted twice.
C25_FallbackProgramsStay ==
    /\ C25_FallbackReturned
    /\ C25_NoSecondInsertion
    /\ (/\ op = "get_program_details"
        /\ args.unit_id = 200
        /\ args.cip_code \in FallbackCips
        /\ \E s \in Sessions : \E row \in C25_FallbackRows :
               BagIn(row, conn[s].programs))
       => (result # NoRecord /\ result \in C25_FallbackRows
           /\ result.cip_code = args.cip_code)

\* The same for a session whose own get_programs call has just been
\* answered with the fallback programs: the very next call for one of them.
C25_AfterOwnGetPrograms ==
    [][(/\ op = "get_programs"
        /\ args.unit_id = 200
        /\ op' = "get_program_details"
        /\ args'.self = args.self
        /\ args'.unit_id = 200)
       => result' # NoRecord]_vars

\* C26: the result of calculate_payback_period is exactly 0, a finite value
\* in (0, 50], or +infinity: never negative and never a finite value above
\* 50, whatever the debt, the salary and the payment rate (a negative rate
\* included).
C26_PaybackRange ==
    op = "payback_period" =>
        \/ result = <<0, 1>>
        \/ result = <<1, 0>>
        \/ /\ Len(result) = 2
           /\ result[2] > 0
           /\ 0 < result[1]
           /\ result[1] <= 50 * result[2]

\* A positive salary at a negative rate: the payment is negative, and the
\* result is infinite, not a negative number of years.
C26_Witness ==
    /\ op = "payback_period"
    /\ args.total_debt = R(25000) /\ args.annual_salary = R(50000)
    /\ args.payment_rate = Q(-1, 10)
    /\ result = <<1, 0>>

\* A finite result below the cap: 25000 / (50000 * 0.10) is 5.
C26_FiniteWitness ==
    /\ op = "payback_period"
    /\ args.total_debt = R(25000) /\ args.annual_salary = R(50000)
    /\ args.payment_rate = Q(1, 10)
    /\ result = <<5, 1>>

\* C27: capping the debt-to-income ratio at 100 never changes the comfort
\* index: for every ratio d >= 0 and every graduation_rate and roi,
\* calculate_comfort_index(min(d, 100), graduation_rate, roi) equals
\* calculate_comfort_index(d, graduation_rate, roi), and every d >= 50
\* gives the same comfort index.
C27_CapKeepsComfort ==
    (op = "comfort_index" /\ args.dti[1] >= 0) =>
        /\ Eq(calculate_comfort_index(PyMin(args.dti, R(100)),
                                      args.graduation_rate, args.roi),
              result)
        /\ args.dti[1] >= 50 * args.dti[2] =>
              \A d \in {x \in Dtis : x[1] >= 50 * x[2]} :
                  Eq(calculate_comfort_index(d, args.graduation_rate, args.roi),
                     result)

\* A raw ratio of 200, which the cap turns into 100: the index is
\* 0.3 * 50 + 0.3 * 75 = 37.5 either way.
C27_Witness ==
    /\ op = "comfort_index"
    /\ args.dti = R(200) /\ args.graduation_rate = Q(1, 2) /\ args.roi = R(50)
    /\ result = <<75, 2>>

\* C28: calculate_comfort_index is monotone in each argument with the
\* other two fixed: it never increases when dti increases, and it never
\* decreases when graduation_rate increases or when roi increases.
C28_ComfortMonotone ==
    op = "comfort_index" =>
        /\ \A d \in {x \in Dtis : Le(args.dti, x)} :
              Le(calculate_comfort_index(d, args.graduation_rate, args.roi),
                 result)
        /\ \A g \in {x \in GraduationRates : Le(args.graduation_rate, x)} :
              Le(result, calculate_comfort_index(args.dti, g, args.roi))
        /\ \A r \in {x \in Rois : Le(args.roi, x)} :
              Le(result, calculate_comfort_index(args.dti, args.graduation_rate, r))

\* A call in the middle of all three ranges, where raising the dti lowers
\* the index and raising the graduation rate or the roi raises it:
\* 0.4 * 50 + 0.3 * 50 + 0.3 * 50 = 50.
C28_Witness ==
    /\ op = "comfort_index"
    /\ args.dti = R(25) /\ args.graduation_rate = Q(1, 2) /\ args.roi = Zero
    /\ result = <<50, 1>>
    /\ Lt(calculate_comfort_index(R(50), Q(1, 2), Zero), result)
    /\ Lt(result, calculate_comfort_index(R(25), Q(3, 4), Zero))
    /\ Lt(result, calculate_comfort_index(R(25), Q(1, 2), R(100)))

\* The sidebars that differ from sb in the aid, the family contribution,
\* the APR or the tax rate only.
C29_SameCosts(sb) ==
    {x \in SidebarValues :
        /\ x.housing_type = sb.housing_type
        /\ x.roommate_count = sb.roommate_count
        /\ x.food_monthly = sb.food_monthly
        /\ x.transport_monthly = sb.transport_monthly}

\* C29: on both pages the roi is computed from four times the total annual
\* cost of attendance and the projected year-5 earnings only: with the cost
\* inputs and the year-1 salary fixed, other grants, scholarships,
\* work-study, family contribution, APR or tax rate never change the roi
\* the page reports.
C29_RoiIgnoresFinancing ==
    run.page \in {"planner", "compare"} =>
        /\ op = "roi" =>
              /\ DOMAIN args = {"total_cost", "year5_earnings", "baseline_earnings"}
              /\ Eq(args.total_cost, Mul(R(4), run.locals.total_annual_cost))
              /\ args.year5_earnings = run.locals.year5
              /\ args.baseline_earnings = <<35000, 1>>
        /\ (run.page = "planner" /\ run.pc = "done") =>
              \A sb \in C29_SameCosts(run.inputs.shared_params) :
                  planner_run("base_housing",
                              [run.inputs EXCEPT !.shared_params = sb],
                              NoLocals).loc.roi = run.locals.roi
        /\ (run.page = "compare" /\ run.pc = "done") =>
              \A sb \in C29_SameCosts(run.inputs.shared_params) :
                  compare_run("tuition",
                              [run.inputs EXCEPT !.shared_params = sb],
                              NoLocals).loc.roi = run.locals.roi

\* A planner run with grants of 5000 at an APR of 6%: the roi is that of
\* the run without aid at 5.5%, while the debt, the dti and the payback
\* period all differ.
C29_Witness ==
    /\ run.page = "planner" /\ run.pc = "done"
    /\ run.inputs.inst_details = SampleInstitution
    /\ run.inputs.prog_details = SampleProgram
    /\ run.inputs.shared_params =
          [SampleSidebar EXCEPT !.grants = R(5000), !.loan_apr = Q(6, 100)]
    /\ LET plain == planner_run("base_housing",
                        [run.inputs EXCEPT !.shared_params = SampleSidebar],
                        NoLocals).loc
       IN  /\ plain.roi = run.locals.roi
           /\ ~Eq(plain.cumulative_debt, run.locals.cumulative_debt)
           /\ ~Eq(plain.dti, run.locals.dti)
           /\ ~Eq(plain.payback, run.locals.payback)

\* The same on the compare page with scholarships and work-study.
C29_CompareWitness ==
    /\ run.page = "compare" /\ run.pc = "done"
    /\ run.inputs.inst_details = SampleInstitution
    /\ run.inputs.prog_details = SampleProgram
    /\ run.inputs.shared_params =
          [SampleSidebar EXCEPT !.scholarships = R(2000), !.work_study = R(3000)]
    /\ LET plain == compare_run("tuition",
                        [run.inputs EXCEPT !.shared_params = SampleSidebar],
                        NoLocals).loc
       IN  /\ plain.roi = run.locals.roi
           /\ ~Eq(plain.cumulative_debt, run.locals.cumulative_debt)
           /\ ~Eq(plain.dti, run.locals.dti)
           /\ ~Eq(plain.payback, run.locals.payback)

\* C30: when the year-1 salary is 0 or negative and the cumulative debt is
\* positive, a page reports an infinite payback period and a dti of 0, so
\* that the debt part of the comfort index is its maximum, 0.4 * 100, as
\* for a program with no debt; and when the cumulative debt is 0, the
\* monthly payment, the dti and the payback period are all 0 whatever the
\* salary.
C30_NoSalaryNoDebt ==
    (run.page \in {"planner", "compare"} /\ run.pc = "done") =>
        LET loc == run.locals
            roi_score == PyMax(Zero, PyMin(R(100), Div(Add(loc.roi, R(100)), R(2))))
            rest == Add(Mul(Mul(loc.grad_rate, R(100)), Q(3, 10)),
                        Mul(roi_score, Q(3, 10)))
        IN  /\ (Le(loc.year1, Zero) /\ Lt(Zero, loc.cumulative_debt)) =>
                  /\ loc.payback = <<1, 0>>
                  /\ loc.dti = <<0, 1>>
                  /\ Eq(loc.comfort, PyMax(Zero, PyMin(R(100), Add(R(40), rest))))
            /\ IsZero(loc.cumulative_debt) =>
                  /\ IsZero(loc.monthly_payment)
                  /\ IsZero(loc.dti)
                  /\ IsZero(loc.payback)

\* A program with recorded earnings of 0 and a debt of 105600.
C30_Witness ==
    /\ run.page = "planner" /\ run.pc = "done"
    /\ run.locals.year1 = <<0, 1>>
    /\ run.locals.cumulative_debt = <<105600, 1>>
    /\ run.locals.payback = <<1, 0>>
    /\ run.locals.dti = <<0, 1>>

\* Negative earnings on the compare page.
C30_NegativeSalaryWitness ==
    /\ run.page = "compare" /\ run.pc = "done"
    /\ run.locals.year1 = <<-1000, 1>>
    /\ Lt(Zero, run.locals.cumulative_debt)
    /\ run.locals.payback = <<1, 0>>

\* No debt, with a salary and without one.
C30_NoDebtWitness ==
    /\ run.page = "planner" /\ run.pc = "done"
    /\ run.locals.cumulative_debt = <<0, 1>>
    /\ run.locals.year1 = <<50000, 1>>
    /\ run.locals.payback = <<0, 1>>

C30_NoDebtNoSalaryWitness ==
    /\ run.page = "compare" /\ run.pc = "done"
    /\ run.locals.cumulative_debt = <<0, 1>>
    /\ run.locals.year1 = <<0, 1>>
    /\ run.locals.payback = <<0, 1>>

==========================================================================
